---- MODULE Spec2Model ----
(***************************************************************************)
(* Authentication / session / RBAC core of the school-website backend:     *)
(* AuthService (login, lockout), the auth middleware (requireAuth,         *)
(* requirePermission, getUserById, getInactivityTimeout) and the role      *)
(* service, over the relational store AdminUsers / Roles / Permissions /   *)
(* UserRoles / RolePermissions.  Times are milliseconds, as Date.now().    *)
(***************************************************************************)
EXTENDS Integers, Sequences, FiniteSets, TLC

VARIABLES
    users,            \* AdminUsers: id -> row
    roles,            \* Roles: id -> row
    permissions,      \* Permissions: id -> row
    userRoles,        \* UserRoles rows [user_id, role_id, is_active]
    rolePermissions,  \* RolePermissions rows [role_id, permission_id, is_granted]
    sessions,         \* express-session store: session id -> session data
    now,              \* the clock (Date.now(), GETDATE())
    resp,             \* the last request and the response it got
    calls             \* in-flight authenticateUser calls (interleaved specification)

vars == <<users, roles, permissions, userRoles, rolePermissions, sessions, now, resp, calls>>

(***************************************************************************)
(* Bounds of the model.                                                    *)
(***************************************************************************)
MaxFailedAttempts == 6      \* wrong-password attempts are explored up to this stored count
MaxClockUnits == 1          \* clock samples: Epoch + a + b*59999 + c*840000, a <= MaxClockUnits
NumCalls == 2               \* concurrent authenticateUser calls in SpecConc
MaxStoreOps == 1            \* direct updates of the store (no request) that are explored

(***************************************************************************)
(* Program constants.                                                      *)
(***************************************************************************)
MAX_LOGIN_ATTEMPTS == 5
LOCKOUT_TIME == 900000
MS_PER_MINUTE == 60000
NULL == -1                  \* SQL NULL / undefined of a timestamp or id column
NoUserId == 0               \* req.session.userId unset (falsy)
Epoch == 1                  \* the clock when the server starts (Date.now() is never 0)

UserIds == {1, 2}
RoleIds == {1, 2}
PermissionIds == {1, 2, 3}
SessionIds == {1}
CallIds == 1..NumCalls

Identifiers == {"alice", "alice@school.edu", "bob@school.edu", "ghost"}
Passwords == {"pwA", "pwB", ""}
LockoutIdentifiers == {"alice", "alice@school.edu", "ghost"}
Credentials == {<<"alice", "pwA">>, <<"bob@school.edu", "pwB">>}

\* bcrypt: hash(plaintext) -> digest, compare(plaintext, digest) -> bool
hashPassword(password) == <<"bcrypt", password>>
verifyPassword(password, hash) == hash = hashPassword(password)

\* The sampled instants of the clock.
TimePoints ==
    { Epoch + a + b * (MS_PER_MINUTE - 1) + c * (LOCKOUT_TIME - MS_PER_MINUTE) :
        a \in 0..MaxClockUnits, b \in 0..1, c \in 0..1 }

Ceil(n, d) == IF n % d = 0 THEN n \div d ELSE (n \div d) + 1


(***************************************************************************)
(* The store at start-up (seed data) and the empty session.                *)
(***************************************************************************)
UserRow(id, username, email, password) ==
    [id |-> id, username |-> username, email |-> email,
     password_hash |-> hashPassword(password), is_active |-> TRUE,
     failed_login_attempts |-> 0, locked_until_ts |-> NULL, last_login_ts |-> NULL]

SeedUsers ==
    (1 :> UserRow(1, "alice", "alice@school.edu", "pwA")) @@
    (2 :> UserRow(2, "bob", "bob@school.edu", "pwB"))

SeedRoles ==
    (1 :> [id |-> 1, role_name |-> "Editor", is_system_role |-> TRUE,
           is_active |-> TRUE, inactivity_timeout_minutes |-> 0]) @@
    (2 :> [id |-> 2, role_name |-> "Administrator", is_system_role |-> FALSE,
           is_active |-> TRUE, inactivity_timeout_minutes |-> 1])

SeedPermissions ==
    (1 :> [id |-> 1, permission_name |-> "roles.read", module |-> "roles",
           action |-> "read", is_active |-> TRUE]) @@
    (2 :> [id |-> 2, permission_name |-> "roles.delete", module |-> "roles",
           action |-> "delete", is_active |-> TRUE]) @@
    (3 :> [id |-> 3, permission_name |-> "roles.update", module |-> "roles",
           action |-> "update", is_active |-> TRUE])

SeedUserRoles ==
    { [id |-> 1, user_id |-> 1, role_id |-> 1, is_active |-> TRUE],
      [id |-> 2, user_id |-> 1, role_id |-> 2, is_active |-> TRUE],
      [id |-> 3, user_id |-> 2, role_id |-> 1, is_active |-> TRUE] }

SeedRolePermissions ==
    { [role_id |-> 1, permission_id |-> 1, is_granted |-> TRUE],
      [role_id |-> 2, permission_id |-> 1, is_granted |-> TRUE],
      [role_id |-> 2, permission_id |-> 2, is_granted |-> TRUE],
      [role_id |-> 2, permission_id |-> 3, is_granted |-> TRUE] }

\* AuthUser with no user in it: the "user" of a failed result, req.user unset
NoIdentity ==
    [id |-> NoUserId, username |-> "", email |-> "", isActive |-> FALSE,
     lastLoginTs |-> NULL, lockedUntilTs |-> NULL, failedLoginAttempts |-> 0,
     roles |-> <<>>, permissions |-> <<>>]

NoSessionUser == [id |-> NoUserId, username |-> "", email |-> "", roles |-> <<>>, permissions |-> <<>>]

\* SessionData with nothing set: a fresh or destroyed session
EmptySession == [userId |-> NoUserId, user |-> NoSessionUser, lastActivity |-> 0]

(***************************************************************************)
(* The identity query and buildUserFromResults.                            *)
(***************************************************************************)
JoinRow(u, roleId, permissionId) ==
    [id |-> users[u].id, username |-> users[u].username, email |-> users[u].email,
     password_hash |-> users[u].password_hash, is_active |-> users[u].is_active,
     last_login_ts |-> users[u].last_login_ts,
     locked_until_ts |-> users[u].locked_until_ts,
     failed_login_attempts |-> users[u].failed_login_attempts,
     role_id |-> roleId,
     role_name |-> IF roleId = NULL THEN "" ELSE roles[roleId].role_name,
     permission_id |-> permissionId,
     permission_name |-> IF permissionId = NULL THEN ""
                         ELSE permissions[permissionId].permission_name]

\* AdminUsers au LEFT JOIN UserRoles ur ON au.id = ur.user_id
\*   LEFT JOIN Roles r ON ur.role_id = r.id AND r.is_active = 1
\*   LEFT JOIN RolePermissions rp ON r.id = rp.role_id
\*   LEFT JOIN Permissions p ON rp.permission_id = p.id AND p.is_active = 1
\* for one AdminUsers row.
UserJoinRows(u) ==
    LET urs == { ur \in userRoles : ur.user_id = u }
        RoleRows(r) ==
            IF ~(r \in DOMAIN roles /\ roles[r].is_active)
            THEN { JoinRow(u, NULL, NULL) }
            ELSE LET rps == { rp \in rolePermissions : rp.role_id = r }
                 IN  IF rps = {}
                     THEN { JoinRow(u, r, NULL) }
                     ELSE { JoinRow(u, r,
                                IF /\ rp.permission_id \in DOMAIN permissions
                                   /\ permissions[rp.permission_id].is_active
                                THEN rp.permission_id ELSE NULL) : rp \in rps }
    IN  IF urs = {} THEN { JoinRow(u, NULL, NULL) }
        ELSE UNION { RoleRows(ur.role_id) : ur \in urs }

RowKey(row) == (row.role_id + 1) * 16 + (row.permission_id + 1)

RECURSIVE SortRows(_)
SortRows(S) ==
    IF S = {} THEN <<>>
    ELSE LET least == CHOOSE x \in S : \A y \in S : RowKey(x) <= RowKey(y)
         IN  <<least>> \o SortRows(S \ {least})

\* The recordset of the query for the matched AdminUsers rows; SQL fixes no order, so
\* the user whose rows come first is a choice.
Recordset(matched, first) ==
    IF matched = {} THEN <<>>
    ELSE SortRows(UserJoinRows(first)) \o
         SortRows(UNION { UserJoinRows(u) : u \in matched \ {first} })

\* mutant: an id already collected is not recognised
HasId_Never(seq, id) == FALSE

\* roles.has(row.role_id), permissions.has(row.permission_id)
HasId(seq, id) == \E i \in 1..Len(seq) : seq[i].id = id

RECURSIVE CollectRoles(_, _)
CollectRoles(results, acc) ==
    IF results = <<>> THEN acc
    ELSE LET row == Head(results)
         IN  CollectRoles(Tail(results),
                 IF row.role_id # NULL /\ ~HasId(acc, row.role_id)
                 THEN Append(acc, [id |-> row.role_id, roleName |-> row.role_name])
                 ELSE acc)

RECURSIVE CollectPermissions(_, _)
CollectPermissions(results, acc) ==
    IF results = <<>> THEN acc
    ELSE LET row == Head(results)
         IN  CollectPermissions(Tail(results),
                 IF row.permission_id # NULL /\ ~HasId(acc, row.permission_id)
                 THEN Append(acc, [id |-> row.permission_id,
                                   permissionName |-> row.permission_name])
                 ELSE acc)

buildUserFromResults(results) ==
    LET user == results[1]
    IN  [id |-> user.id, username |-> user.username, email |-> user.email,
         isActive |-> user.is_active, lastLoginTs |-> user.last_login_ts,
         lockedUntilTs |-> user.locked_until_ts,
         failedLoginAttempts |-> user.failed_login_attempts,
         roles |-> CollectRoles(results, <<>>),
         permissions |-> CollectPermissions(results, <<>>)]

\* user.permissions.some(p => p.permissionName === permissionName)
hasPermission(user, permissionName) ==
    \E i \in 1..Len(user.permissions) : user.permissions[i].permissionName = permissionName

\* mutant: every role of the user has to be one of roleNames
hasRole_Every(user, roleNames) ==
    \A i \in 1..Len(user.roles) : user.roles[i].roleName \in roleNames

\* user.roles.some(r => roleNames.includes(r.roleName))
hasRole(user, roleNames) ==
    \E i \in 1..Len(user.roles) : user.roles[i].roleName \in roleNames

(***************************************************************************)
(* AuthService.authenticateUser and handleFailedLogin.                     *)
(***************************************************************************)
\* WHERE au.username = @username OR au.email = @username
MatchingUsers(username) ==
    { u \in DOMAIN users : users[u].username = username \/ users[u].email = username }

LoginQuery(username, first) == Recordset(MatchingUsers(username), first)

AuthResult(success, user, message, minutes) ==
    [success |-> success, user |-> user, message |-> message, minutes |-> minutes]

\* mutant: the lock still holds at the instant locked_until_ts
isLocked_Inclusive(userData, t) ==
    userData.locked_until_ts # NULL /\ t <= userData.locked_until_ts

\* userData.locked_until_ts && new Date() < userData.locked_until_ts
isLocked(userData, t) ==
    userData.locked_until_ts # NULL /\ t < userData.locked_until_ts

\* mutant: the remaining time is rounded to the nearest minute
lockTimeRemaining_Round(userData, t) ==
    (userData.locked_until_ts - t + MS_PER_MINUTE \div 2) \div MS_PER_MINUTE

\* mutant: the remaining time is rounded down
lockTimeRemaining_Floor(userData, t) == (userData.locked_until_ts - t) \div MS_PER_MINUTE

\* Math.ceil((locked_until_ts.getTime() - Date.now()) / (1000 * 60))
lockTimeRemaining(userData, t) == Ceil(userData.locked_until_ts - t, MS_PER_MINUTE)

\* mutant: a lock that has expired is cleared and the count starts again
handleFailedLogin_RestartAfterExpiry(tbl, userId, currentAttempts, t) ==
    IF userId \notin DOMAIN tbl THEN tbl
    ELSE IF tbl[userId].locked_until_ts # NULL
    THEN [tbl EXCEPT ![userId].failed_login_attempts = 1,
                     ![userId].locked_until_ts = NULL]
    ELSE LET newAttempts == currentAttempts + 1
         IN  IF newAttempts >= MAX_LOGIN_ATTEMPTS
             THEN [tbl EXCEPT ![userId].failed_login_attempts = newAttempts,
                              ![userId].locked_until_ts = t + LOCKOUT_TIME]
             ELSE [tbl EXCEPT ![userId].failed_login_attempts = newAttempts]

\* mutant: the lock is set only once the count has passed the maximum
handleFailedLogin_Late(tbl, userId, currentAttempts, t) ==
    LET newAttempts == currentAttempts + 1
    IN  IF userId \notin DOMAIN tbl THEN tbl
        ELSE IF newAttempts > MAX_LOGIN_ATTEMPTS
        THEN [tbl EXCEPT ![userId].failed_login_attempts = newAttempts,
                         ![userId].locked_until_ts = t + LOCKOUT_TIME]
        ELSE [tbl EXCEPT ![userId].failed_login_attempts = newAttempts]

\* const newAttempts = currentAttempts + 1; the UPDATE sets locked_until_ts only when
\* newAttempts >= MAX_LOGIN_ATTEMPTS
handleFailedLogin(tbl, userId, currentAttempts, t) ==
    LET newAttempts == currentAttempts + 1
    IN  IF userId \notin DOMAIN tbl THEN tbl
        ELSE IF newAttempts >= MAX_LOGIN_ATTEMPTS
        THEN [tbl EXCEPT ![userId].failed_login_attempts = newAttempts,
                         ![userId].locked_until_ts = t + LOCKOUT_TIME]
        ELSE [tbl EXCEPT ![userId].failed_login_attempts = newAttempts]

\* mutant: the UPDATE leaves locked_until_ts as it was
resetFailedLogin_KeepLock(tbl, userId, t) ==
    IF userId \notin DOMAIN tbl THEN tbl
    ELSE [tbl EXCEPT ![userId].failed_login_attempts = 0,
                     ![userId].last_login_ts = t]

\* UPDATE AdminUsers SET failed_login_attempts = 0, locked_until_ts = NULL,
\*   last_login_ts = GETDATE() WHERE id = @userId
resetFailedLogin(tbl, userId, t) ==
    IF userId \notin DOMAIN tbl THEN tbl
    ELSE [tbl EXCEPT ![userId].failed_login_attempts = 0,
                     ![userId].locked_until_ts = NULL,
                     ![userId].last_login_ts = t]

\* mutant: an unknown identifier is reported as such
noSuchUserResult_Revealing == AuthResult(FALSE, NoIdentity, "User not found", 0)

\* return { success: false, message: 'Invalid credentials' } for an empty recordset
noSuchUserResult == AuthResult(FALSE, NoIdentity, "Invalid credentials", 0)

\* return { success: false, message: 'Invalid credentials' } after handleFailedLogin
wrongPasswordResult == AuthResult(FALSE, NoIdentity, "Invalid credentials", 0)

\* mutant: the active flag is not looked at
isDisabled_Never(userData) == FALSE

\* !userData.is_active
isDisabled(userData) == ~userData.is_active

\* mutant: a wrong password on a locked account is counted and renews the lock
finishAuthenticate_CountWhileLocked(recordset, password, tbl, t) ==
    IF Len(recordset) = 0
    THEN [result |-> noSuchUserResult, users |-> tbl]
    ELSE LET userData == recordset[1]
         IN  IF isLocked(userData, t)
             THEN [result |-> AuthResult(FALSE, NoIdentity, "Account is locked",
                                         lockTimeRemaining(userData, t)),
                   users |-> IF verifyPassword(password, userData.password_hash) THEN tbl
                             ELSE handleFailedLogin(tbl, userData.id,
                                                    userData.failed_login_attempts, t)]
             ELSE IF isDisabled(userData)
             THEN [result |-> AuthResult(FALSE, NoIdentity, "Account is disabled", 0),
                   users |-> tbl]
             ELSE IF ~verifyPassword(password, userData.password_hash)
             THEN [result |-> wrongPasswordResult,
                   users |-> handleFailedLogin(tbl, userData.id,
                                               userData.failed_login_attempts, t)]
             ELSE [result |-> AuthResult(TRUE, buildUserFromResults(recordset), "", 0),
                   users |-> resetFailedLogin(tbl, userData.id, t)]

\* mutant: the password is verified before the lock is looked at
finishAuthenticate_PasswordFirst(recordset, password, tbl, t) ==
    IF Len(recordset) = 0
    THEN [result |-> noSuchUserResult, users |-> tbl]
    ELSE LET userData == recordset[1]
         IN  IF verifyPassword(password, userData.password_hash) /\ ~isDisabled(userData)
             THEN [result |-> AuthResult(TRUE, buildUserFromResults(recordset), "", 0),
                   users |-> resetFailedLogin(tbl, userData.id, t)]
             ELSE IF isLocked(userData, t)
             THEN [result |-> AuthResult(FALSE, NoIdentity, "Account is locked",
                                         lockTimeRemaining(userData, t)),
                   users |-> tbl]
             ELSE IF isDisabled(userData)
             THEN [result |-> AuthResult(FALSE, NoIdentity, "Account is disabled", 0),
                   users |-> tbl]
             ELSE [result |-> wrongPasswordResult,
                   users |-> handleFailedLogin(tbl, userData.id,
                                               userData.failed_login_attempts, t)]

\* The part of authenticateUser after its query: recordset is what the query returned,
\* tbl the AdminUsers table the UPDATE acts on, t the clock.
finishAuthenticate(recordset, password, tbl, t) ==
    IF Len(recordset) = 0
    THEN [result |-> noSuchUserResult, users |-> tbl]
    ELSE LET userData == recordset[1]
         IN  IF isLocked(userData, t)
             THEN [result |-> AuthResult(FALSE, NoIdentity, "Account is locked",
                                         lockTimeRemaining(userData, t)),
                   users |-> tbl]
             ELSE IF isDisabled(userData)
             THEN [result |-> AuthResult(FALSE, NoIdentity, "Account is disabled", 0),
                   users |-> tbl]
             ELSE IF ~verifyPassword(password, userData.password_hash)
             THEN [result |-> wrongPasswordResult,
                   users |-> handleFailedLogin(tbl, userData.id,
                                               userData.failed_login_attempts, t)]
             ELSE [result |-> AuthResult(TRUE, buildUserFromResults(recordset), "", 0),
                   users |-> resetFailedLogin(tbl, userData.id, t)]

authenticateUser(username, password, first) ==
    finishAuthenticate(LoginQuery(username, first), password, users, now)

\* catch (error) { return { success: false, message: 'Authentication failed' } }
authenticationFailed == AuthResult(FALSE, NoIdentity, "Authentication failed", 0)

\* The paths of authenticateUser that await an UPDATE of AdminUsers: the one through
\* handleFailedLogin and the one that resets the counter.
issuesUpdate(recordset, t) ==
    /\ Len(recordset) > 0
    /\ ~isLocked(recordset[1], t)
    /\ ~isDisabled(recordset[1])

\* mutant: a rejected UPDATE is ignored and the call goes on to its result
tryAuthenticate_Swallow(recordset, password, tbl, t, updateThrows) ==
    IF updateThrows /\ issuesUpdate(recordset, t)
    THEN [result |-> finishAuthenticate(recordset, password, tbl, t).result, users |-> tbl]
    ELSE finishAuthenticate(recordset, password, tbl, t)

\* The try block of authenticateUser: when the awaited UPDATE throws, nothing is
\* stored and the catch block returns.
tryAuthenticate(recordset, password, tbl, t, updateThrows) ==
    IF updateThrows /\ issuesUpdate(recordset, t)
    THEN [result |-> authenticationFailed, users |-> tbl]
    ELSE finishAuthenticate(recordset, password, tbl, t)

\* The users whose row the query may return first (NULL when it returns no row).
FirstRowChoices(username) ==
    IF MatchingUsers(username) = {} THEN {NULL} ELSE MatchingUsers(username)

(***************************************************************************)
(* The auth middleware.                                                    *)
(***************************************************************************)
\* SELECT MIN(r.inactivity_timeout_minutes) FROM AdminUsers au
\*   JOIN UserRoles ur ON au.id = ur.user_id JOIN Roles r ON ur.role_id = r.id
\*   WHERE au.id = @userId AND r.is_active = 1 AND r.inactivity_timeout_minutes > 0
TimeoutRows(userId) ==
    { roles[ur.role_id].inactivity_timeout_minutes :
        ur \in { x \in userRoles :
                   /\ x.user_id = userId
                   /\ userId \in DOMAIN users
                   /\ x.role_id \in DOMAIN roles
                   /\ roles[x.role_id].is_active
                   /\ roles[x.role_id].inactivity_timeout_minutes > 0 } }

Min(S) == CHOOSE x \in S : \A y \in S : x <= y

\* mutant: a failed lookup is taken for the shortest timeout
getInactivityTimeout_FailClosed(userId, queryFails) ==
    LET timeoutMinutes == IF TimeoutRows(userId) = {} THEN NULL ELSE Min(TimeoutRows(userId))
    IN  IF queryFails THEN 1
        ELSE IF timeoutMinutes # NULL /\ timeoutMinutes # 0
        THEN timeoutMinutes * MS_PER_MINUTE ELSE 0

\* queryFails: the query throws; the catch block returns 0 (no timeout on error)
getInactivityTimeout(userId, queryFails) ==
    LET timeoutMinutes == IF TimeoutRows(userId) = {} THEN NULL ELSE Min(TimeoutRows(userId))
    IN  IF queryFails THEN 0
        ELSE IF timeoutMinutes # NULL /\ timeoutMinutes # 0
        THEN timeoutMinutes * MS_PER_MINUTE ELSE 0

\* mutant: the query also leaves out a user whose lock has not run out
UserByIdQuery_NotLocked(userId) ==
    IF /\ userId \in DOMAIN users /\ users[userId].is_active
       /\ ~isLocked(users[userId], now)
    THEN Recordset({userId}, userId) ELSE <<>>

\* mutant: the query does not look at au.is_active
UserByIdQuery_AnyUser(userId) ==
    IF userId \in DOMAIN users THEN Recordset({userId}, userId) ELSE <<>>

\* WHERE au.id = @userId AND au.is_active = 1
UserByIdQuery(userId) ==
    IF userId \in DOMAIN users /\ users[userId].is_active
    THEN Recordset({userId}, userId) ELSE <<>>

\* queryFails: the query throws; the catch block returns { success: false }
getUserById(userId, queryFails) ==
    LET recordset == UserByIdQuery(userId)
    IN  IF queryFails THEN [success |-> FALSE, user |-> NoIdentity]
        ELSE IF Len(recordset) = 0 THEN [success |-> FALSE, user |-> NoIdentity]
        ELSE [success |-> TRUE, user |-> buildUserFromResults(recordset)]

\* What a middleware leaves: whether next() was called, the response if not, req.user
\* and the session data.
Outcome(next, status, message, user, session) ==
    [next |-> next, status |-> status, message |-> message, user |-> user,
     session |-> session]

\* mutant: the session expires as soon as the timeout is reached
inactivityExpired_Inclusive(session, timeout, t) ==
    LET lastActivity == IF session.lastActivity # 0 THEN session.lastActivity ELSE t
    IN  timeout > 0 /\ t - lastActivity >= timeout

\* timeSinceActivity > inactivityTimeout, lastActivity = req.session.lastActivity || Date.now()
inactivityExpired(session, timeout, t) ==
    LET lastActivity == IF session.lastActivity # 0 THEN session.lastActivity ELSE t
    IN  timeout > 0 /\ t - lastActivity > timeout

\* What the two queries of one request do: whether each of them throws.
QueryFaults == [timeout : BOOLEAN, user : BOOLEAN]

NoFaults == [timeout |-> FALSE, user |-> FALSE]

\* mutant: the session is not asked whether a user id is bound
requireAuth_NoBindingCheck(session, t, faults) ==
    IF inactivityExpired(session,
                         getInactivityTimeout(session.userId, faults.timeout), t)
    THEN Outcome(FALSE, 401, "Session expired due to inactivity", NoIdentity, EmptySession)
    ELSE LET touched == [session EXCEPT !.lastActivity = t]
             authResult == getUserById(session.userId, faults.user)
         IN  IF ~authResult.success \/ authResult.user = NoIdentity
             THEN Outcome(FALSE, 401, "User not found or inactive", NoIdentity, touched)
             ELSE Outcome(TRUE, 200, "", authResult.user, touched)

\* mutant: lastActivity is left as it was
requireAuth_NoTouch(session, t, faults) ==
    IF session.userId = NoUserId
    THEN Outcome(FALSE, 401, "Authentication required", NoIdentity, session)
    ELSE IF inactivityExpired(session,
                              getInactivityTimeout(session.userId, faults.timeout), t)
    THEN Outcome(FALSE, 401, "Session expired due to inactivity", NoIdentity, EmptySession)
    ELSE LET authResult == getUserById(session.userId, faults.user)
         IN  IF ~authResult.success \/ authResult.user = NoIdentity
             THEN Outcome(FALSE, 401, "User not found or inactive", NoIdentity, session)
             ELSE Outcome(TRUE, 200, "", authResult.user, session)

requireAuth(session, t, faults) ==
    IF session.userId = NoUserId
    THEN Outcome(FALSE, 401, "Authentication required", NoIdentity, session)
    ELSE IF inactivityExpired(session,
                              getInactivityTimeout(session.userId, faults.timeout), t)
    THEN Outcome(FALSE, 401, "Session expired due to inactivity", NoIdentity, EmptySession)
    ELSE LET touched == [session EXCEPT !.lastActivity = t]
             authResult == getUserById(session.userId, faults.user)
         IN  IF ~authResult.success \/ authResult.user = NoIdentity
             THEN Outcome(FALSE, 401, "User not found or inactive", NoIdentity, touched)
             ELSE Outcome(TRUE, 200, "", authResult.user, touched)

\* mutant: lastActivity is left as it was
optionalAuth_NoTouch(session, t, queryFails) ==
    LET authResult == getUserById(session.userId, queryFails)
    IN  IF session.userId # NoUserId /\ authResult.success /\ authResult.user # NoIdentity
        THEN Outcome(TRUE, 200, "", authResult.user, session)
        ELSE Outcome(TRUE, 200, "", NoIdentity, session)

\* optionalAuth: req.user and lastActivity are set when the session is bound and
\* getUserById resolves its user; next() is called in every case (getUserById catches
\* the error of its query itself, queryFails).
optionalAuth(session, t, queryFails) ==
    LET authResult == getUserById(session.userId, queryFails)
    IN  IF session.userId # NoUserId /\ authResult.success /\ authResult.user # NoIdentity
        THEN Outcome(TRUE, 200, "", authResult.user,
                     [session EXCEPT !.lastActivity = t])
        ELSE Outcome(TRUE, 200, "", NoIdentity, session)

\* mutant: any authenticated user passes
requirePermission_Open(user, permissionName) ==
    IF user = NoIdentity THEN [next |-> FALSE, status |-> 401, message |-> "Authentication required"]
    ELSE [next |-> TRUE, status |-> 200, message |-> ""]

requirePermission(user, permissionName) ==
    IF user = NoIdentity THEN [next |-> FALSE, status |-> 401, message |-> "Authentication required"]
    ELSE IF ~hasPermission(user, permissionName)
    THEN [next |-> FALSE, status |-> 403, message |-> "Insufficient permissions"]
    ELSE [next |-> TRUE, status |-> 200, message |-> ""]

requireRole(user, roleNames) ==
    IF user = NoIdentity THEN [next |-> FALSE, status |-> 401, message |-> "Authentication required"]
    ELSE IF ~hasRole(user, roleNames)
    THEN [next |-> FALSE, status |-> 403, message |-> "Insufficient role privileges"]
    ELSE [next |-> TRUE, status |-> 200, message |-> ""]

(***************************************************************************)
(* RoleService.                                                            *)
(***************************************************************************)
\* UPDATE Roles SET IS_ACTIVE = 0 WHERE ID = @roleId
deleteRole(tbl, roleId) ==
    IF roleId \in DOMAIN tbl THEN [tbl EXCEPT ![roleId].is_active = FALSE] ELSE tbl

\* ID INT IDENTITY(1,1): the id the next inserted row gets
NextIdentity(tbl) == Cardinality(tbl) + 1

\* mutant: the table has no unique constraint on (USER_ID, ROLE_ID)
assignRoleToUser_NoConstraint(tbl, roleId, userId) ==
    IF roleId \notin DOMAIN roles \/ userId \notin DOMAIN users
    THEN [threw |-> TRUE, userRoles |-> tbl]
    ELSE [threw |-> FALSE,
          userRoles |-> tbl \cup { [id |-> NextIdentity(tbl), user_id |-> userId,
                                    role_id |-> roleId, is_active |-> TRUE] }]

\* INSERT INTO UserRoles (ROLE_ID, USER_ID, ASSIGNED_BY): the INSERT throws when a
\* foreign key has no row or when UQ_UserRoles_User_Role (USER_ID, ROLE_ID) is violated
\* by a row of the pair, active or not.
assignRoleToUser(tbl, roleId, userId) ==
    IF roleId \notin DOMAIN roles \/ userId \notin DOMAIN users
    THEN [threw |-> TRUE, userRoles |-> tbl]
    ELSE IF \E ur \in tbl : ur.user_id = userId /\ ur.role_id = roleId
    THEN [threw |-> TRUE, userRoles |-> tbl]
    ELSE [threw |-> FALSE,
          userRoles |-> tbl \cup { [id |-> NextIdentity(tbl), user_id |-> userId,
                                    role_id |-> roleId, is_active |-> TRUE] }]

\* mutant: the assignment row is deleted
removeRoleFromUser_Delete(tbl, roleId, userId) ==
    { ur \in tbl : ~(ur.role_id = roleId /\ ur.user_id = userId) }

\* UPDATE UserRoles SET IS_ACTIVE = 0 WHERE ROLE_ID = @roleId AND USER_ID = @userId
removeRoleFromUser(tbl, roleId, userId) ==
    { IF ur.role_id = roleId /\ ur.user_id = userId
      THEN [ur EXCEPT !.is_active = FALSE] ELSE ur : ur \in tbl }

(***************************************************************************)
(* Requests.  resp is the last request with the response it got: reqUser   *)
(* is req.user as the middleware chain left it, handled tells whether the  *)
(* route handler ran.                                                      *)
(***************************************************************************)
\* What a request came with: the session, the body and route parameters, and, for a
\* request whose store queries are followed, which of them threw and the
\* timeSinceActivity it found.
Args(sid, username, password, roleId, userId) ==
    [sid |-> sid, username |-> username, password |-> password,
     roleId |-> roleId, userId |-> userId,
     faults |-> NoFaults, timeSinceActivity |-> 0]

\* Date.now() - (req.session.lastActivity || Date.now())
timeSinceActivity(session, t) ==
    IF session.lastActivity # 0 THEN t - session.lastActivity ELSE 0

Response(op, args, status, success, message, minutes, reqUser, handled) ==
    [op |-> op, args |-> args, status |-> status, success |-> success,
     message |-> message, minutes |-> minutes, reqUser |-> reqUser, handled |-> handled]

NoRequest == Response("none", Args(0, "", "", 0, 0), 0, FALSE, "", 0, NoIdentity, FALSE)

\* req.session.user of the login route
SessionUser(user) ==
    [id |-> user.id, username |-> user.username, email |-> user.email,
     roles |-> [i \in 1..Len(user.roles) |-> user.roles[i].roleName],
     permissions |-> [i \in 1..Len(user.permissions) |-> user.permissions[i].permissionName]]

\* An authenticateUser call that has not started.
IdleCall ==
    [pc |-> "idle", username |-> "", password |-> "", recordset |-> <<>>,
     result |-> AuthResult(FALSE, NoIdentity, "", 0)]

Init ==
    /\ users = SeedUsers
    /\ roles = SeedRoles
    /\ permissions = SeedPermissions
    /\ userRoles = SeedUserRoles
    /\ rolePermissions = SeedRolePermissions
    /\ sessions = [s \in SessionIds |-> EmptySession]
    /\ now = Epoch
    /\ resp = NoRequest
    /\ calls = [c \in CallIds |-> IdleCall]

rbacVars == <<roles, permissions, userRoles, rolePermissions>>

\* POST /api/auth/login: the response, the AdminUsers table and the session it leaves
\* (loginRateLimit counts failed requests per client address; the requests modelled
\* come from addresses that are below its maximum).
loginResponse(s, username, password, out) ==
    LET args == Args(s, username, password, 0, 0)
    IN  IF username = "" \/ password = ""
        THEN [resp |-> Response("login", args, 400, FALSE,
                                "Username and password are required", 0, NoIdentity, FALSE),
              users |-> users, session |-> sessions[s]]
        ELSE IF ~out.result.success
        THEN [resp |-> Response("login", args, 401, FALSE, out.result.message,
                                out.result.minutes, NoIdentity, TRUE),
              users |-> out.users, session |-> sessions[s]]
        ELSE IF out.result.user = NoIdentity
        THEN [resp |-> Response("login", args, 401, FALSE, "Authentication failed", 0,
                                NoIdentity, TRUE),
              users |-> out.users, session |-> sessions[s]]
        ELSE [resp |-> Response("login", args, 200, TRUE, "Login successful", 0,
                                out.result.user, TRUE),
              users |-> out.users,
              session |-> [userId |-> out.result.user.id,
                           user |-> SessionUser(out.result.user),
                           lastActivity |-> now]]

loginOutcome(s, username, password, first) ==
    loginResponse(s, username, password, authenticateUser(username, password, first))

Login(s, username, password) ==
    \E first \in FirstRowChoices(username) :
        LET o == loginOutcome(s, username, password, first)
        IN  /\ \A u \in DOMAIN o.users :
                   o.users[u].failed_login_attempts <= MaxFailedAttempts
            /\ users' = o.users
            /\ sessions' = [sessions EXCEPT ![s] = o.session]
            /\ resp' = o.resp
            /\ UNCHANGED <<rbacVars, now, calls>>

\* POST /api/auth/login while the store rejects the UPDATE that authenticateUser awaits.
LoginUpdateFails(s, username, password) ==
    \E first \in FirstRowChoices(username) :
        LET recordset == LoginQuery(username, first)
            o == loginResponse(s, username, password,
                               tryAuthenticate(recordset, password, users, now, TRUE))
        IN  /\ username # "" /\ password # ""
            /\ issuesUpdate(recordset, now)
            /\ users' = o.users
            /\ sessions' = [sessions EXCEPT ![s] = o.session]
            /\ resp' = o.resp
            /\ UNCHANGED <<rbacVars, now, calls>>

\* A route behind requireAuth and, when permissionName is not "", requirePermission:
\* the response when a middleware refuses, and whether the handler is reached.
Guard(s, permissionName, faults) ==
    LET auth == requireAuth(sessions[s], now, faults)
        perm == requirePermission(auth.user, permissionName)
    IN  IF ~auth.next
        THEN [pass |-> FALSE, status |-> auth.status, message |-> auth.message,
              user |-> auth.user, session |-> auth.session]
        ELSE IF permissionName # "" /\ ~perm.next
        THEN [pass |-> FALSE, status |-> perm.status, message |-> perm.message,
              user |-> auth.user, session |-> auth.session]
        ELSE [pass |-> TRUE, status |-> 200, message |-> "",
              user |-> auth.user, session |-> auth.session]

Refusal(op, args, g) ==
    Response(op, args, g.status, FALSE, g.message, 0, g.user, FALSE)

\* GET /api/auth/me
Me(s, faults) ==
    LET g == Guard(s, "", faults)
        args == [Args(s, "", "", 0, 0) EXCEPT
                    !.faults = faults,
                    !.timeSinceActivity = timeSinceActivity(sessions[s], now)]
    IN  /\ sessions' = [sessions EXCEPT ![s] = g.session]
        /\ resp' = IF g.pass THEN Response("me", args, 200, TRUE, "", 0, g.user, TRUE)
                   ELSE Refusal("me", args, g)
        /\ UNCHANGED <<users, rbacVars, now, calls>>

\* GET /api/roles
ListRoles(s) ==
    LET g == Guard(s, "roles.read", NoFaults)
        args == Args(s, "", "", 0, 0)
    IN  /\ sessions' = [sessions EXCEPT ![s] = g.session]
        /\ resp' = IF g.pass THEN Response("listRoles", args, 200, TRUE, "", 0, g.user, TRUE)
                   ELSE Refusal("listRoles", args, g)
        /\ UNCHANGED <<users, rbacVars, now, calls>>

\* DELETE /api/roles/:id
DeleteRole(s, roleId) ==
    LET g == Guard(s, "roles.delete", NoFaults)
        args == Args(s, "", "", roleId, 0)
    IN  /\ sessions' = [sessions EXCEPT ![s] = g.session]
        /\ IF g.pass
           THEN /\ roles' = deleteRole(roles, roleId)
                /\ resp' = Response("deleteRole", args, 200, TRUE,
                                    "Role deleted successfully", 0, g.user, TRUE)
           ELSE /\ resp' = Refusal("deleteRole", args, g)
                /\ UNCHANGED roles
        /\ UNCHANGED <<users, permissions, userRoles, rolePermissions, now, calls>>

\* DELETE /api/roles/:id/users/:userId
RemoveRole(s, roleId, userId) ==
    LET g == Guard(s, "roles.update", NoFaults)
        args == Args(s, "", "", roleId, userId)
    IN  /\ sessions' = [sessions EXCEPT ![s] = g.session]
        /\ IF g.pass
           THEN /\ userRoles' = removeRoleFromUser(userRoles, roleId, userId)
                /\ resp' = Response("removeRole", args, 200, TRUE,
                                    "Role removed successfully", 0, g.user, TRUE)
           ELSE /\ resp' = Refusal("removeRole", args, g)
                /\ UNCHANGED userRoles
        /\ UNCHANGED <<users, roles, permissions, rolePermissions, now, calls>>

\* POST /api/roles/:id/users
AssignRole(s, roleId, userId) ==
    LET g == Guard(s, "roles.update", NoFaults)
        args == Args(s, "", "", roleId, userId)
        out == assignRoleToUser(userRoles, roleId, userId)
    IN  /\ sessions' = [sessions EXCEPT ![s] = g.session]
        /\ IF ~g.pass
           THEN /\ resp' = Refusal("assignRole", args, g)
                /\ UNCHANGED userRoles
           ELSE IF out.threw
           THEN /\ resp' = Response("assignRole", args, 500, FALSE,
                                    "Failed to assign role", 0, g.user, TRUE)
                /\ UNCHANGED userRoles
           ELSE /\ resp' = Response("assignRole", args, 200, TRUE,
                                    "Role assigned successfully", 0, g.user, TRUE)
                /\ userRoles' = out.userRoles
        /\ UNCHANGED <<users, roles, permissions, rolePermissions, now, calls>>

\* mutant: logout answers without destroying the session
Logout_KeepSession(s) ==
    LET g == Guard(s, "", NoFaults)
        args == Args(s, "", "", 0, 0)
    IN  /\ sessions' = [sessions EXCEPT ![s] = g.session]
        /\ resp' = IF g.pass
                   THEN Response("logout", args, 200, TRUE, "Logout successful", 0,
                                 g.user, TRUE)
                   ELSE Refusal("logout", args, g)
        /\ UNCHANGED <<users, rbacVars, now, calls>>

\* A request to a route behind optionalAuth, whose handler stores nothing.
OptionalRequest(s, queryFails) ==
    LET auth == optionalAuth(sessions[s], now, queryFails)
        args == [Args(s, "", "", 0, 0) EXCEPT
                    !.faults = [timeout |-> FALSE, user |-> queryFails],
                    !.timeSinceActivity = timeSinceActivity(sessions[s], now)]
    IN  /\ sessions' = [sessions EXCEPT ![s] = auth.session]
        /\ resp' = Response("optional", args, auth.status, TRUE, "", 0, auth.user, auth.next)
        /\ UNCHANGED <<users, rbacVars, now, calls>>

\* POST /api/auth/logout
Logout(s) ==
    LET g == Guard(s, "", NoFaults)
        args == Args(s, "", "", 0, 0)
    IN  /\ IF g.pass
           THEN /\ sessions' = [sessions EXCEPT ![s] = EmptySession]
                /\ resp' = Response("logout", args, 200, TRUE, "Logout successful", 0,
                                    g.user, TRUE)
           ELSE /\ sessions' = [sessions EXCEPT ![s] = g.session]
                /\ resp' = Refusal("logout", args, g)
        /\ UNCHANGED <<users, rbacVars, now, calls>>

(***************************************************************************)
(* Updates made in the store directly (the schema's flags; no request of   *)
(* the backend sets them).                                                 *)
(***************************************************************************)
StoreOpsDone ==
    Cardinality({ rp \in rolePermissions : ~rp.is_granted }) +
    Cardinality({ u \in DOMAIN users : ~users[u].is_active }) +
    Cardinality({ p \in DOMAIN permissions : ~permissions[p].is_active })

\* RolePermissions.IS_GRANTED := 0
RevokeGrant(roleId, permissionId) ==
    /\ StoreOpsDone < MaxStoreOps
    /\ \E rp \in rolePermissions :
          /\ rp.role_id = roleId /\ rp.permission_id = permissionId /\ rp.is_granted
          /\ rolePermissions' = (rolePermissions \ {rp}) \cup {[rp EXCEPT !.is_granted = FALSE]}
    /\ UNCHANGED <<users, roles, permissions, userRoles, sessions, now, resp, calls>>

\* AdminUsers.IS_ACTIVE := 0
DeactivateUser(u) ==
    /\ StoreOpsDone < MaxStoreOps
    /\ u \in DOMAIN users /\ users[u].is_active
    /\ users' = [users EXCEPT ![u].is_active = FALSE]
    /\ UNCHANGED <<rbacVars, sessions, now, resp, calls>>

\* Permissions.is_active := 0
DeactivatePermission(p) ==
    /\ StoreOpsDone < MaxStoreOps
    /\ p \in DOMAIN permissions /\ permissions[p].is_active
    /\ permissions' = [permissions EXCEPT ![p].is_active = FALSE]
    /\ UNCHANGED <<users, roles, userRoles, rolePermissions, sessions, now, resp, calls>>

\* Time passes.
Tick ==
    /\ \E t \in TimePoints : t > now /\ now' = t
    /\ UNCHANGED <<users, rbacVars, sessions, resp, calls>>

(***************************************************************************)
(* Specifications.  Each one runs the handlers of one part of the core     *)
(* over the same state; Spec is authentication and lockout.                *)
(***************************************************************************)
\* Authentication and lockout: logins of one account by username and by e-mail and
\* of an unknown identifier, accounts being disabled, time passing.
Next ==
    \/ \E username \in LockoutIdentifiers, password \in Passwords :
          \E s \in SessionIds : Login(s, username, password)
    \/ \E u \in UserIds : DeactivateUser(u)
    \/ Tick

Spec == Init /\ [][Next]_vars

\* Sessions and RBAC: logins with the right password, the guarded routes and the
\* updates of the RBAC tables, at one instant.
NextRbac ==
    \/ \E s \in SessionIds, c \in Credentials : Login(s, c[1], c[2])
    \/ \E s \in SessionIds : ListRoles(s)
    \/ \E s \in SessionIds, r \in RoleIds : DeleteRole(s, r)
    \/ \E s \in SessionIds, r \in RoleIds, u \in UserIds : RemoveRole(s, r, u)
    \/ \E r \in RoleIds, p \in PermissionIds : RevokeGrant(r, p)
    \/ \E p \in PermissionIds : DeactivatePermission(p)

SpecRbac == Init /\ [][NextRbac]_vars

(***************************************************************************)
(* authenticateUser calls that interleave: each call awaits its SELECT,    *)
(* and later checks the row it read and awaits its UPDATE.                 *)
(***************************************************************************)
\* await db.request().input('username', username).query(SELECT ...)
CallQuery(c, username, password) ==
    /\ calls[c].pc = "idle"
    /\ \E first \in FirstRowChoices(username) :
          calls' = [calls EXCEPT ![c] =
                       [pc |-> "queried", username |-> username, password |-> password,
                        recordset |-> LoginQuery(username, first),
                        result |-> AuthResult(FALSE, NoIdentity, "", 0)]]
    /\ UNCHANGED <<users, rbacVars, sessions, now, resp>>

\* the checks on the row read, verifyPassword, and the UPDATE
CallFinish(c) ==
    LET out == finishAuthenticate(calls[c].recordset, calls[c].password, users, now)
    IN  /\ calls[c].pc = "queried"
        /\ \A u \in DOMAIN out.users :
               out.users[u].failed_login_attempts <= MaxFailedAttempts
        /\ users' = out.users
        /\ calls' = [calls EXCEPT ![c].pc = "done", ![c].result = out.result]
        /\ UNCHANGED <<rbacVars, sessions, now, resp>>

\* The account has already failed some logins (any count below the maximum can be
\* reached by that many wrong passwords).
InitConc ==
    /\ \E n \in {0, MAX_LOGIN_ATTEMPTS - 2} :
          users = [SeedUsers EXCEPT ![1].failed_login_attempts = n]
    /\ roles = SeedRoles
    /\ permissions = SeedPermissions
    /\ userRoles = SeedUserRoles
    /\ rolePermissions = SeedRolePermissions
    /\ sessions = [s \in SessionIds |-> EmptySession]
    /\ now = Epoch
    /\ resp = NoRequest
    /\ calls = [c \in CallIds |-> IdleCall]

NextConc ==
    \/ \E c \in CallIds, username \in LockoutIdentifiers, password \in {"pwA", "pwB"} :
          CallQuery(c, username, password)
    \/ \E c \in CallIds : CallFinish(c)

SpecConc == InitConc /\ [][NextConc]_vars

(***************************************************************************)
(* Sessions over time: logins that succeed and fail, requests behind       *)
(* requireAuth whose queries may throw, logout, roles taken from users,    *)
(* accounts being disabled, time passing.                                  *)
(***************************************************************************)
\* The 15-minute timeout an administrator may have given the Editor role.
EditorTimeoutMinutes == 15

\* Roles.inactivity_timeout_minutes is set per role by an administrator; the Editor role
\* starts with the policy off (0) or with the longer timeout.
InitSession ==
    /\ users = SeedUsers
    /\ \E m \in {0, EditorTimeoutMinutes} :
          roles = [SeedRoles EXCEPT ![1].inactivity_timeout_minutes = m]
    /\ permissions = SeedPermissions
    /\ userRoles = SeedUserRoles
    /\ rolePermissions = SeedRolePermissions
    /\ sessions = [s \in SessionIds |-> EmptySession]
    /\ now = Epoch
    /\ resp = NoRequest
    /\ calls = [c \in CallIds |-> IdleCall]

\* The right credentials of the account that holds both roles, and an unknown identifier.
SessionCredentials == { <<"alice", "pwA">>, <<"ghost", "pwA">> }

\* The users whose assignments are taken away.
SessionUsers == {1}

NextSession ==
    \/ \E s \in SessionIds, c \in SessionCredentials : Login(s, c[1], c[2])
    \/ \E s \in SessionIds, faults \in QueryFaults : Me(s, faults)
    \/ \E s \in SessionIds : Logout(s)
    \/ \E s \in SessionIds, r \in RoleIds, u \in SessionUsers : RemoveRole(s, r, u)
    \/ \E u \in SessionUsers : DeactivateUser(u)
    \/ Tick

SpecSession == InitSession /\ [][NextSession]_vars

(***************************************************************************)
(* Role administration: roles given to and taken from users and roles      *)
(* deleted, by whoever is logged in.                                       *)
(***************************************************************************)
NextRoles ==
    \/ \E s \in SessionIds, c \in Credentials : Login(s, c[1], c[2])
    \/ \E s \in SessionIds, r \in RoleIds, u \in UserIds : AssignRole(s, r, u)
    \/ \E s \in SessionIds, r \in RoleIds, u \in UserIds : RemoveRole(s, r, u)
    \/ \E s \in SessionIds, r \in RoleIds : DeleteRole(s, r)

SpecRoles == Init /\ [][NextRoles]_vars

(***************************************************************************)
(* Logins while the store may reject an UPDATE of AdminUsers.              *)
(***************************************************************************)
NextPersist ==
    \/ \E username \in LockoutIdentifiers, password \in Passwords :
          \E s \in SessionIds : Login(s, username, password)
    \/ \E username \in LockoutIdentifiers, password \in Passwords :
          \E s \in SessionIds : LoginUpdateFails(s, username, password)
    \/ Tick

SpecPersist == Init /\ [][NextPersist]_vars

(***************************************************************************)
(* PermissionService.createPermission calls that interleave: each call     *)
(* awaits its SELECT of the name, and later awaits its INSERT.             *)
(***************************************************************************)
\* The permissions asked for: a new one, one with the name of a seeded permission, one
\* with a new name for the module and action of the first, and one with the name of
\* the first for another module.
PermissionData ==
    { [permissionName |-> "news.create", module |-> "news", action |-> "create"],
      [permissionName |-> "roles.read", module |-> "roles", action |-> "read"],
      [permissionName |-> "news.add", module |-> "news", action |-> "create"],
      [permissionName |-> "news.create", module |-> "posts", action |-> "create"] }

CreateResult(success, permissionId, message) ==
    [success |-> success, permissionId |-> permissionId, message |-> message]

\* A createPermission call that has not started.
IdleCreate ==
    [pc |-> "idle", permissionData |-> [permissionName |-> "", module |-> "", action |-> ""],
     existing |-> 0, result |-> CreateResult(FALSE, NULL, "")]

\* SELECT ID FROM Permissions WHERE PERMISSION_NAME = @permissionName
existingPermissions(tbl, permissionName) ==
    { p \in DOMAIN tbl : tbl[p].permission_name = permissionName }

\* mutant: PERMISSION_NAME has no UNIQUE constraint
insertPermission_NoUniqueName(tbl, permissionData) ==
    IF \E p \in DOMAIN tbl : /\ tbl[p].module = permissionData.module
                              /\ tbl[p].action = permissionData.action
    THEN [threw |-> TRUE, permissions |-> tbl, id |-> NULL]
    ELSE LET id == Cardinality(DOMAIN tbl) + 1
         IN  [threw |-> FALSE, id |-> id,
              permissions |->
                  [p \in DOMAIN tbl \cup {id} |->
                      IF p \in DOMAIN tbl THEN tbl[p]
                      ELSE [id |-> id, permission_name |-> permissionData.permissionName,
                            module |-> permissionData.module,
                            action |-> permissionData.action, is_active |-> TRUE]]]

\* INSERT INTO Permissions (PERMISSION_NAME, DESCRIPTION, MODULE, ACTION, CREATED_BY)
\* OUTPUT INSERTED.ID: the INSERT throws when PERMISSION_NAME UNIQUE or
\* UQ_Permissions_Module_Action would be violated (CREATED_BY is the id of the user
\* requireAuth resolved, which FK_Permissions_CreatedBy accepts).
insertPermission(tbl, permissionData) ==
    IF \/ existingPermissions(tbl, permissionData.permissionName) # {}
       \/ \E p \in DOMAIN tbl : /\ tbl[p].module = permissionData.module
                                 /\ tbl[p].action = permissionData.action
    THEN [threw |-> TRUE, permissions |-> tbl, id |-> NULL]
    ELSE LET id == Cardinality(DOMAIN tbl) + 1
         IN  [threw |-> FALSE, id |-> id,
              permissions |->
                  [p \in DOMAIN tbl \cup {id} |->
                      IF p \in DOMAIN tbl THEN tbl[p]
                      ELSE [id |-> id, permission_name |-> permissionData.permissionName,
                            module |-> permissionData.module,
                            action |-> permissionData.action, is_active |-> TRUE]]]

\* const existing = await db.request()...query(SELECT ID FROM Permissions ...)
CreateCheck(c, permissionData) ==
    /\ calls[c].pc = "idle"
    /\ calls' = [calls EXCEPT ![c] =
                    [pc |-> "checked", permissionData |-> permissionData,
                     existing |-> Cardinality(existingPermissions(permissions,
                                                  permissionData.permissionName)),
                     result |-> CreateResult(FALSE, NULL, "")]]
    /\ UNCHANGED <<users, rbacVars, sessions, now, resp>>

\* if (existing.recordset.length > 0) return ...; the awaited INSERT; the catch block
CreateInsert(c) ==
    LET ins == insertPermission(permissions, calls[c].permissionData)
    IN  /\ calls[c].pc = "checked"
        /\ IF calls[c].existing > 0
           THEN /\ calls' = [calls EXCEPT ![c].pc = "done",
                                ![c].result = CreateResult(FALSE, NULL,
                                                  "Permission already exists")]
                /\ UNCHANGED permissions
           ELSE IF ins.threw
           THEN /\ calls' = [calls EXCEPT ![c].pc = "done",
                                ![c].result = CreateResult(FALSE, NULL,
                                                  "Failed to create permission")]
                /\ UNCHANGED permissions
           ELSE /\ calls' = [calls EXCEPT ![c].pc = "done",
                                ![c].result = CreateResult(TRUE, ins.id, "")]
                /\ permissions' = ins.permissions
        /\ UNCHANGED <<users, roles, userRoles, rolePermissions, sessions, now, resp>>

\* The caller has its result; the next call may start.
CreateReturn(c) ==
    /\ calls[c].pc = "done"
    /\ calls' = [calls EXCEPT ![c] = IdleCreate]
    /\ UNCHANGED <<users, rbacVars, sessions, now, resp>>

InitPermissions ==
    /\ users = SeedUsers
    /\ roles = SeedRoles
    /\ permissions = SeedPermissions
    /\ userRoles = SeedUserRoles
    /\ rolePermissions = SeedRolePermissions
    /\ sessions = [s \in SessionIds |-> EmptySession]
    /\ now = Epoch
    /\ resp = NoRequest
    /\ calls = [c \in CallIds |-> IdleCreate]

NextPermissions ==
    \/ \E c \in CallIds, permissionData \in PermissionData : CreateCheck(c, permissionData)
    \/ \E c \in CallIds : CreateInsert(c)
    \/ \E c \in CallIds : CreateReturn(c)

SpecPermissions == InitPermissions /\ [][NextPermissions]_vars

(***************************************************************************)
(* Registration: AuthService.registerUser as the register route calls it   *)
(* for a caller its middleware has admitted, and logins afterwards.        *)
(***************************************************************************)
\* The users asked for: one whose username is the e-mail address of a seeded user, one
\* with the same e-mail address and a username of its own, and one with the username
\* of a seeded user.
RegisterData ==
    { [username |-> "bob@school.edu", email |-> "carol@school.edu", password |-> "pwC"],
      [username |-> "carol", email |-> "carol@school.edu", password |-> "pwC"],
      [username |-> "alice", email |-> "dave@school.edu", password |-> "pwC"] }

\* The identifiers and passwords of the logins after registration.
RegisterLogins == {"bob@school.edu", "carol"} \X {"pwB", "pwC"}

\* SELECT id FROM AdminUsers WHERE username = @username OR email = @email
existingUser(tbl, userData) ==
    { u \in DOMAIN tbl : tbl[u].username = userData.username \/ tbl[u].email = userData.email }

\* registerUser: the check, the INSERT INTO AdminUsers, and the INSERT INTO UserRoles
\* ... SELECT ... FROM Roles WHERE role_name = 'user'
registerUser(userData) ==
    IF existingUser(users, userData) # {}
    THEN [success |-> FALSE, message |-> "Username or email already exists",
          users |-> users, userRoles |-> userRoles]
    ELSE LET userId == Cardinality(DOMAIN users) + 1
             defaults == { r \in DOMAIN roles : roles[r].role_name = "user" }
         IN  [success |-> TRUE, message |-> "",
              users |-> [u \in DOMAIN users \cup {userId} |->
                            IF u \in DOMAIN users THEN users[u]
                            ELSE UserRow(userId, userData.username, userData.email,
                                         userData.password)],
              userRoles |-> userRoles \cup
                  { [id |-> NextIdentity(userRoles), user_id |-> userId, role_id |-> r,
                     is_active |-> TRUE] : r \in defaults }]

\* POST /api/auth/register, from the call of registerUser on
RegisterUser(userData) ==
    LET out == registerUser(userData)
        args == Args(0, userData.username, userData.password, 0, 0)
    IN  /\ users' = out.users
        /\ userRoles' = out.userRoles
        /\ resp' = IF out.success
                   THEN Response("register", args, 201, TRUE, "User registered successfully",
                                 0, NoIdentity, TRUE)
                   ELSE Response("register", args, 400, FALSE, out.message, 0,
                                 NoIdentity, TRUE)
        /\ UNCHANGED <<roles, permissions, rolePermissions, sessions, now, calls>>

NextRegister ==
    \/ \E userData \in RegisterData : RegisterUser(userData)
    \/ \E s \in SessionIds, c \in RegisterLogins : Login(s, c[1], c[2])

SpecRegister == Init /\ [][NextRegister]_vars

(***************************************************************************)
(* Sessions that are used through optionalAuth and through requireAuth.    *)
(***************************************************************************)
NextOptional ==
    \/ \E s \in SessionIds, c \in SessionCredentials : Login(s, c[1], c[2])
    \/ \E s \in SessionIds, queryFails \in BOOLEAN : OptionalRequest(s, queryFails)
    \/ \E s \in SessionIds : Me(s, NoFaults)
    \/ \E u \in SessionUsers : DeactivateUser(u)
    \/ Tick

SpecOptional == InitSession /\ [][NextOptional]_vars

(***************************************************************************)
(* An account that is locked while a session of its user is open.          *)
(***************************************************************************)
\* Logins of one account with the right and with a wrong password.
LockedLogins == { <<"alice", "pwA">>, <<"alice", "pwB">> }

NextLocked ==
    \/ \E s \in SessionIds, c \in LockedLogins : Login(s, c[1], c[2])
    \/ \E s \in SessionIds : Me(s, NoFaults)
    \/ Tick

SpecLocked == Init /\ [][NextLocked]_vars

(***************************************************************************)
(* RoleService.createRole calls that interleave: each call awaits          *)
(* transaction.begin(), its SELECT of the name, and its INSERT.            *)
(***************************************************************************)
\* The role names asked for: the names of the seeded roles and two unused names.
RoleData ==
    { [roleName |-> "Editor"], [roleName |-> "Administrator"], [roleName |-> "Teacher"],
      [roleName |-> "Viewer"] }

CreateRoleResult(success, roleId, message) ==
    [success |-> success, roleId |-> roleId, message |-> message]

\* A createRole call that has not started; tx is the state of its transaction.
IdleCreateRole ==
    [pc |-> "idle", roleData |-> [roleName |-> ""], tx |-> "none", existingRole |-> 0,
     result |-> CreateRoleResult(FALSE, NULL, "")]

\* SELECT ID FROM Roles WHERE ROLE_NAME = @roleName
existingRole(tbl, roleName) == { r \in DOMAIN tbl : tbl[r].role_name = roleName }

\* The INSERT of createRole: its text is INSERT INTO Permissions (...) VALUES
\* (@permissionName, @description, @module, @action, @createdBy), while the request
\* declares roleName, description, inactivityLockEnabled, inactivityLockDays and
\* createdBy: the statement is rejected for its undeclared variables and stores nothing.
insertOfCreateRole(roleTbl, permissionTbl, roleData) ==
    [threw |-> TRUE, roles |-> roleTbl, permissions |-> permissionTbl, id |-> NULL]

\* const transaction = createTransaction(); await transaction.begin()
CreateRoleBegin(c, roleData) ==
    /\ calls[c].pc = "idle"
    /\ calls' = [calls EXCEPT ![c] = [IdleCreateRole EXCEPT !.pc = "begun",
                                                           !.roleData = roleData,
                                                           !.tx = "open"]]
    /\ UNCHANGED <<users, rbacVars, sessions, now, resp>>

\* const existingRole = await transaction.request()...query(SELECT ID FROM Roles ...)
CreateRoleCheck(c) ==
    /\ calls[c].pc = "begun"
    /\ calls' = [calls EXCEPT
                    ![c].pc = "checked",
                    ![c].existingRole =
                        Cardinality(existingRole(roles, calls[c].roleData.roleName))]
    /\ UNCHANGED <<users, rbacVars, sessions, now, resp>>

\* if (existingRole.recordset.length > 0) { await transaction.rollback(); return ... };
\* the awaited INSERT; return { success: true, roleId }; the catch block
CreateRoleFinish(c) ==
    LET ins == insertOfCreateRole(roles, permissions, calls[c].roleData)
    IN  /\ calls[c].pc = "checked"
        /\ IF calls[c].existingRole > 0
           THEN /\ calls' = [calls EXCEPT ![c].pc = "done", ![c].tx = "rolledback",
                                ![c].result = CreateRoleResult(FALSE, NULL,
                                                  "Role name already exists")]
                /\ UNCHANGED <<roles, permissions>>
           ELSE IF ins.threw
           THEN /\ calls' = [calls EXCEPT ![c].pc = "done",
                                ![c].result = CreateRoleResult(FALSE, NULL,
                                                  "Failed to create permission")]
                /\ UNCHANGED <<roles, permissions>>
           ELSE /\ calls' = [calls EXCEPT ![c].pc = "done",
                                ![c].result = CreateRoleResult(TRUE, ins.id, "")]
                /\ roles' = ins.roles
                /\ permissions' = ins.permissions
        /\ UNCHANGED <<users, userRoles, rolePermissions, sessions, now, resp>>

\* The caller has its result; the next call may start.
CreateRoleReturn(c) ==
    /\ calls[c].pc = "done"
    /\ calls' = [calls EXCEPT ![c] = IdleCreateRole]
    /\ UNCHANGED <<users, rbacVars, sessions, now, resp>>

InitCreateRole ==
    /\ users = SeedUsers
    /\ roles = SeedRoles
    /\ permissions = SeedPermissions
    /\ userRoles = SeedUserRoles
    /\ rolePermissions = SeedRolePermissions
    /\ sessions = [s \in SessionIds |-> EmptySession]
    /\ now = Epoch
    /\ resp = NoRequest
    /\ calls = [c \in CallIds |-> IdleCreateRole]

NextCreateRole ==
    \/ \E c \in CallIds, roleData \in RoleData : CreateRoleBegin(c, roleData)
    \/ \E c \in CallIds : CreateRoleCheck(c)
    \/ \E c \in CallIds : CreateRoleFinish(c)
    \/ \E c \in CallIds : CreateRoleReturn(c)

SpecCreateRole == InitCreateRole /\ [][NextCreateRole]_vars

(***************************************************************************)
(* Properties.                                                             *)
(***************************************************************************)
\* A login request for an identifier of account u, with a password that reaches
\* authenticateUser.
LoginOn(u, username, password) ==
    /\ u \in MatchingUsers(username)
    /\ password # ""
    /\ \E s \in SessionIds : Login(s, username, password)

LockedNow(u) == users[u].locked_until_ts # NULL /\ now < users[u].locked_until_ts

CorrectPassword(u, password) == verifyPassword(password, users[u].password_hash)

RefusedAsLocked(r) ==
    r.op = "login" /\ ~r.success /\ r.message = "Account is locked" /\ r.reqUser = NoIdentity

\* C1: once the consecutive wrong passwords have brought the stored counter to
\* MAX_LOGIN_ATTEMPTS (and not before) locked_until_ts is set, to now + LOCKOUT_TIME by the
\* call that reaches the maximum; every login on the account made while
\* now < locked_until_ts is refused as locked whatever the password, and a login made
\* when now >= locked_until_ts is not refused as locked.
C1_LockoutWindow ==
    [][ \A u \in UserIds, username \in Identifiers, password \in Passwords :
          LoginOn(u, username, password) =>
            /\ (users'[u].failed_login_attempts >= MAX_LOGIN_ATTEMPTS)
                   <=> (users'[u].locked_until_ts # NULL)
            /\ (/\ users[u].failed_login_attempts < MAX_LOGIN_ATTEMPTS
                /\ users'[u].failed_login_attempts >= MAX_LOGIN_ATTEMPTS)
                   => users'[u].locked_until_ts = now + LOCKOUT_TIME
            /\ LockedNow(u) => RefusedAsLocked(resp') /\ users' = users
            /\ ~LockedNow(u) => ~RefusedAsLocked(resp')
      ]_vars

\* C1 witness: a wrong password was refused as such on an account whose counter had
\* already reached the maximum: its lock was set, has expired and no longer blocks.
C1_Witness ==
    /\ resp.op = "login" /\ resp.message = "Invalid credentials"
    /\ \E u \in MatchingUsers(resp.args.username) :
          /\ users[u].failed_login_attempts > MAX_LOGIN_ATTEMPTS
          /\ users[u].locked_until_ts = now + LOCKOUT_TIME

\* C2: while locked_until_ts is set and in the future, a login with the correct password
\* is refused as locked and yields no identity; nothing is stored and no session is bound.
C2_LockBeforePassword ==
    [][ \A u \in UserIds, username \in Identifiers, password \in Passwords :
          (LoginOn(u, username, password) /\ LockedNow(u) /\ CorrectPassword(u, password))
            => /\ RefusedAsLocked(resp')
               /\ resp'.status = 401
               /\ users' = users
               /\ sessions' = sessions
      ]_vars

\* C2 witness: the correct password has just been refused on a locked, active account.
C2_Witness ==
    /\ RefusedAsLocked(resp)
    /\ \E u \in MatchingUsers(resp.args.username) :
          /\ CorrectPassword(u, resp.args.password)
          /\ users[u].is_active
          /\ LockedNow(u)

WrongPasswordCase(u, password) ==
    users[u].is_active /\ ~LockedNow(u) /\ ~CorrectPassword(u, password)

RefusedAsInvalid(r) ==
    /\ r.op = "login" /\ ~r.success /\ r.status = 401
    /\ r.message = "Invalid credentials" /\ r.reqUser = NoIdentity

LockoutMinutes == LOCKOUT_TIME \div MS_PER_MINUTE

\* C3 as stated: the wrong-password call that brings the counter of an active, unlocked
\* account to MAX_LOGIN_ATTEMPTS is itself refused as locked, with the lockout duration
\* as remaining minutes.
C3_AsStated ==
    [][ \A u \in UserIds, username \in Identifiers, password \in Passwords :
          (/\ LoginOn(u, username, password)
           /\ WrongPasswordCase(u, password)
           /\ users[u].failed_login_attempts = MAX_LOGIN_ATTEMPTS - 1)
            => RefusedAsLocked(resp') /\ resp'.minutes = LockoutMinutes
      ]_vars

\* C3 amended: the wrong-password call that brings the counter to MAX_LOGIN_ATTEMPTS sets
\* the lock and is itself refused as invalid credentials; a call made while the lock
\* lasts is refused as locked with the remaining time rounded up to whole minutes, which
\* is the lockout duration when less than a minute of the window has gone by.
C3_LockReportedByNextCall ==
    [][ \A u \in UserIds, username \in Identifiers, password \in Passwords :
          LoginOn(u, username, password) =>
            /\ (/\ WrongPasswordCase(u, password)
                /\ users[u].failed_login_attempts = MAX_LOGIN_ATTEMPTS - 1)
                  => /\ RefusedAsInvalid(resp')
                     /\ users'[u].locked_until_ts = now + LOCKOUT_TIME
            /\ LockedNow(u)
                  => LET remaining == users[u].locked_until_ts - now
                     IN  /\ RefusedAsLocked(resp')
                         /\ resp'.minutes * MS_PER_MINUTE >= remaining
                         /\ (resp'.minutes - 1) * MS_PER_MINUTE < remaining
                         /\ (remaining > LOCKOUT_TIME - MS_PER_MINUTE
                               /\ remaining <= LOCKOUT_TIME)
                                => resp'.minutes = LockoutMinutes
      ]_vars

\* C3 witness: a call made shortly after the lock was set (the window has started to run
\* down) is refused as locked with the whole lockout duration as remaining minutes.
C3_Witness ==
    /\ RefusedAsLocked(resp)
    /\ resp.minutes = LockoutMinutes
    /\ \E u \in MatchingUsers(resp.args.username) :
          /\ users[u].failed_login_attempts = MAX_LOGIN_ATTEMPTS
          /\ users[u].locked_until_ts - now < LOCKOUT_TIME
          /\ users[u].locked_until_ts - now > LOCKOUT_TIME - MS_PER_MINUTE

\* C4: a wrong password on an active, unlocked account raises the stored counter by
\* exactly 1, sets locked_until_ts = now + LOCKOUT_TIME iff the new count has reached
\* MAX_LOGIN_ATTEMPTS and otherwise leaves it as it was, changes nothing else, and is
\* answered with invalid credentials in both cases.
C4_WrongPasswordCounts ==
    [][ \A u \in UserIds, username \in Identifiers, password \in Passwords :
          (LoginOn(u, username, password) /\ WrongPasswordCase(u, password))
            => LET newCount == users[u].failed_login_attempts + 1
               IN  /\ RefusedAsInvalid(resp')
                   /\ users'[u].failed_login_attempts = newCount
                   /\ users'[u].locked_until_ts =
                         IF newCount >= MAX_LOGIN_ATTEMPTS
                         THEN now + LOCKOUT_TIME
                         ELSE users[u].locked_until_ts
                   /\ users' = [users EXCEPT
                                  ![u].failed_login_attempts = users'[u].failed_login_attempts,
                                  ![u].locked_until_ts = users'[u].locked_until_ts]
                   /\ sessions' = sessions
      ]_vars

\* C4 witness: the wrong password that brought the counter to the maximum was answered
\* with invalid credentials and set the lock.
C4_Witness ==
    /\ RefusedAsInvalid(resp)
    /\ \E u \in MatchingUsers(resp.args.username) :
          /\ users[u].failed_login_attempts = MAX_LOGIN_ATTEMPTS
          /\ users[u].locked_until_ts = now + LOCKOUT_TIME

\* C5: the correct password on an active account that is not locked now succeeds and
\* leaves the counter at 0, locked_until_ts cleared and last_login_ts = now, whatever the
\* counter and the (expired) lock were.
C5_SuccessResets ==
    [][ \A u \in UserIds, username \in Identifiers, password \in Passwords :
          (/\ LoginOn(u, username, password)
           /\ users[u].is_active /\ ~LockedNow(u) /\ CorrectPassword(u, password))
            => /\ resp'.success /\ resp'.status = 200
               /\ resp'.reqUser # NoIdentity /\ resp'.reqUser.id = u
               /\ users' = [users EXCEPT ![u].failed_login_attempts = 0,
                                         ![u].locked_until_ts = NULL,
                                         ![u].last_login_ts = now]
      ]_vars

\* C5 witness: a login succeeded on an account that came with a counter at the maximum
\* or above and an expired lock; both are now cleared.
C5_Witness ==
    /\ resp.op = "login" /\ resp.success
    /\ resp.reqUser # NoIdentity
    /\ resp.reqUser.lockedUntilTs # NULL
    /\ users[resp.reqUser.id].failed_login_attempts = 0
    /\ users[resp.reqUser.id].locked_until_ts = NULL
    /\ users[resp.reqUser.id].last_login_ts = now

\* What the caller of the login route can see of a response.
Observable(r) == [status |-> r.status, success |-> r.success, message |-> r.message]

\* C7: the failure reported for an identifier that matches no user has the same success
\* flag and message (and status) as the failure that a wrong password on any existing
\* active, unlocked user gets in the same state.
C7_UniformFailure ==
    [][ \A s \in SessionIds, ghost \in Identifiers, password \in Passwords \ {""} :
          (Login(s, ghost, password) /\ MatchingUsers(ghost) = {})
            => /\ ~resp'.success
               /\ \A u \in UserIds, username \in Identifiers, wrong \in Passwords \ {""} :
                    (u \in MatchingUsers(username) /\ WrongPasswordCase(u, wrong))
                      => Observable(resp')
                           = Observable(loginOutcome(s, username, wrong, u).resp)
      ]_vars

\* C7 witness: an unknown identifier has just been refused while account 1 is active and
\* unlocked, so that a wrong password on it is a case to compare with.
C7_Witness ==
    /\ resp.op = "login" /\ ~resp.success /\ resp.args.password # ""
    /\ MatchingUsers(resp.args.username) = {}
    /\ users[1].is_active /\ ~LockedNow(1)
    /\ users[1].failed_login_attempts > 0

\* C8: a login on an account whose active flag is cleared and that is not locked now is
\* refused as disabled whatever the password, yields no identity and leaves the stored
\* row (counter, lock, last login) and the session as they were.
C8_DisabledRefused ==
    [][ \A u \in UserIds, username \in Identifiers, password \in Passwords :
          (LoginOn(u, username, password) /\ ~users[u].is_active /\ ~LockedNow(u))
            => /\ resp'.op = "login" /\ ~resp'.success /\ resp'.status = 401
               /\ resp'.message = "Account is disabled"
               /\ resp'.reqUser = NoIdentity
               /\ users' = users
               /\ sessions' = sessions
      ]_vars

\* C8 witness: the correct password has just been refused as disabled on a deactivated
\* account that had failures on record.
C8_Witness ==
    /\ resp.op = "login" /\ resp.message = "Account is disabled"
    /\ \E u \in MatchingUsers(resp.args.username) :
          /\ ~users[u].is_active
          /\ CorrectPassword(u, resp.args.password)
          /\ users[u].failed_login_attempts > 0

\* The calls that read the row of account u with the counter at n, found the password
\* wrong and have returned.
WrongPasswordCallsOn(u, n) ==
    { c \in CallIds :
        /\ calls[c].pc = "done"
        /\ calls[c].result.message = "Invalid credentials"
        /\ Len(calls[c].recordset) > 0
        /\ calls[c].recordset[1].id = u
        /\ calls[c].recordset[1].failed_login_attempts = n }

\* C6: when all the interleaved calls are wrong-password calls on one account that read
\* its row before any of them wrote, the stored counter ends one higher per call, and
\* the account is locked if that total has reached MAX_LOGIN_ATTEMPTS.
C6_NoLostIncrement ==
    \A u \in UserIds, n \in 0..MaxFailedAttempts :
        WrongPasswordCallsOn(u, n) = CallIds
          => /\ users[u].failed_login_attempts = n + Cardinality(CallIds)
             /\ n + Cardinality(CallIds) >= MAX_LOGIN_ATTEMPTS
                  => users[u].locked_until_ts # NULL

\* The roles and permissions the resolution rule gives user u: active assignment to an
\* active role; active permission granted (is_granted = 1) to such a role.
ExpectedRoles(u) ==
    { r \in DOMAIN roles :
        /\ roles[r].is_active
        /\ \E ur \in userRoles : ur.user_id = u /\ ur.role_id = r /\ ur.is_active }

ExpectedPermissions(u) ==
    { p \in DOMAIN permissions :
        /\ permissions[p].is_active
        /\ \E r \in ExpectedRoles(u), rp \in rolePermissions :
              rp.role_id = r /\ rp.permission_id = p /\ rp.is_granted }

IdentityRoles(user) == { user.roles[i].id : i \in 1..Len(user.roles) }

IdentityPermissions(user) == { user.permissions[i].id : i \in 1..Len(user.permissions) }

\* A request that resolves an identity: a login or a route behind requireAuth.
ResolvingRequest ==
    \E s \in SessionIds :
        \/ \E c \in Credentials : Login(s, c[1], c[2])
        \/ ListRoles(s)
        \/ \E r \in RoleIds : DeleteRole(s, r)
        \/ \E r \in RoleIds, u \in UserIds : RemoveRole(s, r, u)

\* C9: the identity a login or a requireAuth request resolves holds exactly the roles
\* the user is actively assigned to that are active, and exactly the active permissions
\* granted to one of those roles.
C9_IdentityMatchesRule ==
    [][ (ResolvingRequest /\ resp'.reqUser # NoIdentity)
          => /\ IdentityRoles(resp'.reqUser) = ExpectedRoles(resp'.reqUser.id)
             /\ IdentityPermissions(resp'.reqUser) = ExpectedPermissions(resp'.reqUser.id)
      ]_vars

\* C10: a request for a route that requires roles.read, on a session whose login
\* snapshot holds that permission while the store no longer gives it to the user, is
\* refused by requirePermission on an identity without the permission, and the session
\* stays bound to the user.
C10_RevocationNextRequest ==
    [][ \A s \in SessionIds :
          (/\ ListRoles(s)
           /\ sessions[s].userId # NoUserId
           /\ users[sessions[s].userId].is_active
           /\ \E i \in 1..Len(sessions[s].user.permissions) :
                  sessions[s].user.permissions[i] = "roles.read"
           /\ 1 \notin ExpectedPermissions(sessions[s].userId))
            => /\ resp'.status = 403 /\ ~resp'.handled
               /\ resp'.reqUser # NoIdentity
               /\ ~hasPermission(resp'.reqUser, "roles.read")
               /\ sessions'[s].userId = sessions[s].userId
      ]_vars

\* removeRoleFromUser(r, u) has succeeded: the assignment is there and is inactive.
Removed(r, u) ==
    \E ur \in userRoles : ur.role_id = r /\ ur.user_id = u /\ ~ur.is_active

\* The permissions that have a RolePermissions row for one of the roles R.
PermissionsVia(R) == { rp.permission_id : rp \in { x \in rolePermissions : x.role_id \in R } }

\* The timeout the policy gives user u: the least positive timeout of the roles the rule
\* gives the user, in milliseconds; 0 when none of them has one.
ExpectedTimeout(u) ==
    LET enabled == { roles[r].inactivity_timeout_minutes :
                       r \in { x \in ExpectedRoles(u) :
                                 roles[x].inactivity_timeout_minutes > 0 } }
    IN  IF enabled = {} THEN 0 ELSE Min(enabled) * MS_PER_MINUTE

\* C11: once removeRoleFromUser(r, u) has succeeded, the identity the next login or
\* requireAuth request resolves for u holds neither r nor a permission that only the
\* removed roles reach, and r does not count for u's inactivity timeout.
C11_RemovedRoleGone ==
    [][ \A u \in UserIds, r \in RoleIds :
          (ResolvingRequest /\ resp'.reqUser.id = u /\ Removed(r, u))
            => /\ r \notin IdentityRoles(resp'.reqUser)
               /\ IdentityPermissions(resp'.reqUser)
                     \subseteq PermissionsVia({ x \in RoleIds : ~Removed(x, u) })
               /\ getInactivityTimeout(u, FALSE) = ExpectedTimeout(u)
      ]_vars

NoDuplicateIds(seq) ==
    \A i, j \in 1..Len(seq) : seq[i].id = seq[j].id => i = j

\* C12: the roles list and the permissions list of every resolved identity hold each id
\* at most once: the identity of the last request, and the identity the login query and
\* the per-request query give each user in the current store.
C12_NoDuplicateIds ==
    /\ NoDuplicateIds(resp.reqUser.roles)
    /\ NoDuplicateIds(resp.reqUser.permissions)
    /\ \A u \in UserIds :
          /\ getUserById(u, FALSE).success
                => /\ NoDuplicateIds(getUserById(u, FALSE).user.roles)
                   /\ NoDuplicateIds(getUserById(u, FALSE).user.permissions)
          /\ LET identity == buildUserFromResults(LoginQuery(users[u].username, u))
             IN  NoDuplicateIds(identity.roles) /\ NoDuplicateIds(identity.permissions)

\* C12 witness: a request resolved the identity of a user whose two roles each span
\* several joined rows and both reach permission 1; the identity lists 2 roles and 3
\* permissions out of 4 joined rows.
C12_Witness ==
    /\ resp.reqUser.id = 1
    /\ resp.op = "listRoles"
    /\ Len(UserByIdQuery(1)) = 4
    /\ IdentityRoles(resp.reqUser) = {1, 2}
    /\ Len(resp.reqUser.roles) = 2
    /\ Len(resp.reqUser.permissions) = 3
    /\ {1, 2} \subseteq { rp.role_id : rp \in { x \in rolePermissions : x.permission_id = 1 } }

\* A request on session s for a route behind requireAuth.
GuardedRequest(s) ==
    \/ \E faults \in QueryFaults : Me(s, faults)
    \/ Logout(s)
    \/ \E r \in RoleIds, u \in SessionUsers : RemoveRole(s, r, u)

\* The session is bound to a user.
Bound(s) == sessions[s].userId # NoUserId

\* The user the session is bound to has no row or has the active flag cleared.
GoneOrInactive(s) ==
    sessions[s].userId \notin DOMAIN users \/ ~users[sessions[s].userId].is_active

\* The store is left as it was.
StoreUnchanged == users' = users /\ UNCHANGED rbacVars

GuardedRequestTimeoutRead(s) ==
    \/ \E faults \in QueryFaults : ~faults.timeout /\ Me(s, faults)
    \/ Logout(s)
    \/ \E r \in RoleIds, u \in SessionUsers : RemoveRole(s, r, u)

ExpiredForInactivity(r) ==
    r.status = 401 /\ r.message = "Session expired due to inactivity" /\ ~r.handled

\* C14: the timeout requireAuth applies to a session is the least positive timeout of
\* the active roles of its user that enable the policy, and none when no role of the
\* user enables it: a request whose lookup succeeds is rejected for inactivity exactly
\* when that timeout is positive and less than the time since the last activity.
C14_MinimumOfEnabledRoles ==
    [][ \A s \in SessionIds :
          (GuardedRequestTimeoutRead(s) /\ Bound(s))
            => (ExpiredForInactivity(resp')
                  <=> /\ ExpectedTimeout(sessions[s].userId) > 0
                      /\ timeSinceActivity(sessions[s], now)
                            > ExpectedTimeout(sessions[s].userId))
      ]_vars

\* C15: with a timeout T > 0 in force for the user of a session, a request behind
\* requireAuth made when now - lastActivity > T is rejected as expired for inactivity
\* and the session is destroyed; made when now - lastActivity <= T it is not rejected
\* for inactivity and requireAuth leaves the session bound.
C15_ExclusiveBoundary ==
    [][ \A s \in SessionIds :
          LET T == getInactivityTimeout(sessions[s].userId, FALSE)
              elapsed == timeSinceActivity(sessions[s], now)
          IN  (GuardedRequestTimeoutRead(s) /\ Bound(s) /\ T > 0)
                => /\ elapsed > T
                      => /\ ExpiredForInactivity(resp')
                         /\ resp'.reqUser = NoIdentity
                         /\ sessions'[s] = EmptySession
                         /\ StoreUnchanged
                   /\ elapsed <= T
                      => /\ ~ExpiredForInactivity(resp')
                         /\ resp'.op # "logout" => sessions'[s].userId = sessions[s].userId
      ]_vars

\* C15 witness: a request made exactly T after the last activity has just been served
\* (the boundary itself does not expire the session).
C15_Witness ==
    /\ resp.op = "me" /\ resp.handled /\ ~resp.args.faults.timeout
    /\ Bound(resp.args.sid)
    /\ getInactivityTimeout(sessions[resp.args.sid].userId, FALSE) > 0
    /\ resp.args.timeSinceActivity
          = getInactivityTimeout(sessions[resp.args.sid].userId, FALSE)

\* C16: a request behind requireAuth on a session whose user has no role that enables
\* an inactivity policy is not rejected for inactivity and requireAuth does not destroy
\* the session, whatever the time since the last activity.
C16_NoPolicyNoExpiry ==
    [][ \A s \in SessionIds :
          (GuardedRequest(s) /\ Bound(s) /\ ExpectedTimeout(sessions[s].userId) = 0)
            => /\ ~ExpiredForInactivity(resp')
               /\ resp'.op # "logout" => sessions'[s].userId = sessions[s].userId
      ]_vars

\* C17: when the timeout lookup of a request throws, the request is not rejected for
\* inactivity and the session is not destroyed however long it was idle; when the
\* identity query of a request throws, the request is answered with a failure, req.user
\* stays unset and the handler does not run.
C17_FailOpenTimeoutOnly ==
    [][ \A s \in SessionIds, faults \in QueryFaults :
          (Me(s, faults) /\ Bound(s))
            => /\ faults.timeout
                  => /\ ~ExpiredForInactivity(resp')
                     /\ sessions'[s].userId = sessions[s].userId
                     /\ (~faults.user /\ ~GoneOrInactive(s)) => resp'.handled
               /\ faults.user
                  => /\ ~resp'.handled /\ ~resp'.success
                     /\ resp'.status >= 400
                     /\ resp'.reqUser = NoIdentity
                     /\ StoreUnchanged
      ]_vars

\* C17 witness: a request whose timeout lookup threw has just been served on a session
\* that had been idle for longer than the timeout of its user.
C17_Witness ==
    /\ resp.op = "me" /\ resp.handled /\ resp.args.faults.timeout
    /\ Bound(resp.args.sid)
    /\ getInactivityTimeout(sessions[resp.args.sid].userId, FALSE) > 0
    /\ resp.args.timeSinceActivity
          > getInactivityTimeout(sessions[resp.args.sid].userId, FALSE)

\* C18: a request behind requireAuth on a session with no user id bound is answered 401
\* (authentication required) whatever the store queries would do, leaves the session and
\* the store as they were, sets no req.user and does not reach the handler.
C18_UnboundRefused ==
    [][ \A s \in SessionIds :
          (GuardedRequest(s) /\ ~Bound(s))
            => /\ resp'.status = 401 /\ ~resp'.success
               /\ resp'.message = "Authentication required"
               /\ resp'.reqUser = NoIdentity
               /\ ~resp'.handled
               /\ sessions' = sessions
               /\ StoreUnchanged
      ]_vars

\* C18 witness: a request on a session that is not bound (its user had logged in before)
\* has just been refused, in a request whose queries would both have thrown.
C18_Witness ==
    /\ resp.op = "me" /\ resp.status = 401
    /\ resp.message = "Authentication required"
    /\ resp.args.faults = [timeout |-> TRUE, user |-> TRUE]
    /\ ~Bound(resp.args.sid)
    /\ users[1].last_login_ts # NULL

\* A login request on session s.
LoginRequest(s) == \E c \in SessionCredentials : Login(s, c[1], c[2])

\* C19: a session gets a user id bound only by a successful login on it, and a failed
\* login leaves the session as it was; a bound session loses its user id only by a
\* logout that was served or by inactivity expiry, both of which leave the session
\* empty; a request behind requireAuth on an unbound session never reaches the handler,
\* so nothing passes requireAuth again before a new successful login.
C19_SessionLifecycle ==
    [][ \A s \in SessionIds :
          /\ (sessions'[s].userId # sessions[s].userId /\ sessions'[s].userId # NoUserId)
                => /\ resp'.op = "login" /\ resp'.success /\ resp'.args.sid = s
                   /\ sessions'[s].userId = resp'.reqUser.id
          /\ (LoginRequest(s) /\ ~resp'.success) => sessions' = sessions
          /\ (Bound(s) /\ sessions'[s].userId = NoUserId)
                => /\ sessions'[s] = EmptySession
                   /\ \/ resp'.op = "logout" /\ resp'.handled
                      \/ ExpiredForInactivity(resp')
          /\ (GuardedRequest(s) /\ resp'.op = "logout" /\ resp'.handled)
                => sessions'[s] = EmptySession
          /\ (GuardedRequest(s) /\ ExpiredForInactivity(resp'))
                => sessions'[s] = EmptySession
          /\ (GuardedRequest(s) /\ ~Bound(s)) => ~resp'.handled /\ sessions'[s] = sessions[s]
      ]_vars

\* C19 witness: a logout has just been served on a session that a login had bound, and
\* the session is empty again.
C19_Witness ==
    /\ resp.op = "logout" /\ resp.handled /\ resp.reqUser.id = 1
    /\ sessions[resp.args.sid] = EmptySession
    /\ users[1].last_login_ts # NULL

\* C20: every request that passes requireAuth leaves the session bound to the same user
\* with lastActivity set to the time of the request: so does requireAuth in every state
\* for every outcome of its queries, and so does every served request (the logout
\* handler then destroys the session it was handed).
C20_ActivityRestarts ==
    [][ \A s \in SessionIds :
          /\ \A faults \in QueryFaults :
                LET auth == requireAuth(sessions[s], now, faults)
                IN  auth.next => /\ auth.session.userId = sessions[s].userId
                                 /\ auth.session.userId # NoUserId
                                 /\ auth.session.lastActivity = now
          /\ (GuardedRequest(s) /\ resp'.handled /\ resp'.op # "logout")
                => /\ Bound(s)
                   /\ sessions'[s].userId = sessions[s].userId
                   /\ sessions'[s].lastActivity = now
      ]_vars

\* C20 witness: a request was served some time after the last activity of its session,
\* and the session's lastActivity is now the time of that request.
C20_Witness ==
    /\ resp.op = "me" /\ resp.handled
    /\ resp.args.timeSinceActivity > 0
    /\ sessions[resp.args.sid].lastActivity = now
    /\ sessions[resp.args.sid].userId = resp.reqUser.id

\* A session error of requireAuth on session s: inactivity expiry, or the bound user
\* missing or inactive and the request refused for it.
SessionError(s, r) ==
    /\ r.status = 401 /\ ~r.handled
    /\ \/ r.message = "Session expired due to inactivity"
       \/ GoneOrInactive(s) /\ r.message = "User not found or inactive"

\* C21: every session error that requireAuth raises on a bound session destroys the
\* session: the session is not left bound (and refreshed) after such a failure.
C21_SessionErrorDestroys ==
    [][ \A s \in SessionIds :
          (GuardedRequest(s) /\ Bound(s) /\ SessionError(s, resp'))
            => sessions'[s] = EmptySession
      ]_vars

\* A request on session s for a route guarded by requireAuth and requirePermission(p).
GatedRequest(s, p) ==
    \/ p = "roles.read" /\ resp'.op = "listRoles" /\ ListRoles(s)
    \/ p = "roles.delete" /\ resp'.op = "deleteRole" /\ \E r \in RoleIds : DeleteRole(s, r)
    \/ /\ p = "roles.update" /\ resp'.op = "removeRole"
       /\ \E r \in RoleIds, u \in UserIds : RemoveRole(s, r, u)

GatePermissions == {"roles.read", "roles.delete", "roles.update"}

RoleNames == { SeedRoles[r].role_name : r \in RoleIds } \cup {"Teacher"}

\* C22: on a route guarded by requireAuth and requirePermission(p) the handler runs only
\* if the identity resolved from the store for this request holds p; otherwise the
\* request is answered 401 (no identity) or 403 (identity without p) and nothing in the
\* store changes.  requireRole(rs) lets an identity pass exactly when it has one of the
\* roles rs, and answers 401 or 403 otherwise.
C22_GuardShortCircuits ==
    [][ \A s \in SessionIds, p \in GatePermissions :
          GatedRequest(s, p)
            => LET fresh == getUserById(sessions[s].userId, FALSE)
               IN  /\ resp'.handled
                        => /\ Bound(s) /\ fresh.success
                           /\ resp'.reqUser = fresh.user
                           /\ hasPermission(resp'.reqUser, p)
                   /\ ~resp'.handled
                        => /\ ~resp'.success
                           /\ StoreUnchanged
                           /\ resp'.status = IF resp'.reqUser = NoIdentity THEN 401 ELSE 403
                           /\ resp'.reqUser # NoIdentity => ~hasPermission(resp'.reqUser, p)
                   /\ \A rs \in SUBSET RoleNames :
                        LET gate == requireRole(resp'.reqUser, rs)
                        IN  /\ gate.next <=> /\ resp'.reqUser # NoIdentity
                                             /\ hasRole(resp'.reqUser, rs)
                            /\ ~gate.next =>
                                 gate.status = IF resp'.reqUser = NoIdentity THEN 401 ELSE 403
      ]_vars

\* C22 witness: a user without roles.delete asked for a role to be deleted; the request
\* was answered 403 without reaching the handler and the role is still active.
C22_Witness ==
    /\ resp.op = "deleteRole" /\ resp.status = 403 /\ ~resp.handled
    /\ resp.reqUser.id = 2
    /\ ~hasPermission(resp.reqUser, "roles.delete")
    /\ roles[resp.args.roleId].is_active

\* Names the guard is asked about: the permission names of the store, names that differ
\* from them in case or by a prefix only, and the empty name.
ProbePermissionNames ==
    GatePermissions \cup {"Roles.Read", "roles", "roles.read.all", ""}

ProbeRoleNames == RoleNames \cup {"editor", "Admin"}

PermissionNamesOf(user) ==
    { user.permissions[i].permissionName : i \in 1..Len(user.permissions) }

RoleNamesOf(user) == { user.roles[i].roleName : i \in 1..Len(user.roles) }

\* The identities at hand in a state: that of the last request, none, and the one each
\* user resolves to.
IdentitiesAtHand ==
    {resp.reqUser, NoIdentity} \cup
    { getUserById(u, FALSE).user : u \in UserIds }

\* C23: hasPermission(identity, name) holds exactly when a permission of the identity
\* has that very name, and hasRole(identity, names) exactly when a role of the identity
\* has a name in names (never for the empty list).
C23_MembershipTests ==
    \A user \in IdentitiesAtHand :
        /\ \A name \in ProbePermissionNames :
              hasPermission(user, name) <=> name \in PermissionNamesOf(user)
        /\ \A names \in SUBSET ProbeRoleNames :
              hasRole(user, names) <=> RoleNamesOf(user) \cap names # {}
        /\ ~hasRole(user, {})

\* C23 witness: the identity of the last request has both roles and all three permissions
\* and is asked about names it has and names that only look alike.
C23_Witness ==
    /\ resp.reqUser.id = 1
    /\ RoleNamesOf(resp.reqUser) = {"Editor", "Administrator"}
    /\ hasRole(resp.reqUser, {"Editor", "Teacher"})
    /\ ~hasRole(resp.reqUser, {"editor", "Teacher"})
    /\ hasPermission(resp.reqUser, "roles.read")
    /\ ~hasPermission(resp.reqUser, "Roles.Read")
    /\ ~hasPermission(resp.reqUser, "roles")

\* C24: every role whose system flag is set is active, whatever role operations were
\* requested.
C24_SystemRolesStayActive ==
    \A r \in DOMAIN roles : roles[r].is_system_role => roles[r].is_active

ActiveAssignments(u, r) ==
    { ur \in userRoles : ur.user_id = u /\ ur.role_id = r /\ ur.is_active }

\* C25: for every (user, role) pair there is at most one active assignment, whatever
\* assignments and removals were requested.
C25_OneActiveAssignment ==
    \A u \in UserIds, r \in RoleIds : Cardinality(ActiveAssignments(u, r)) <= 1

\* C25 witness: the assignment of a role to a user who holds it has just been refused,
\* and a role that was not held has been assigned before.
C25_Witness ==
    /\ resp.op = "assignRole" /\ resp.handled /\ resp.status = 500
    /\ Cardinality(ActiveAssignments(resp.args.userId, resp.args.roleId)) = 1
    /\ Cardinality(userRoles) > Cardinality(SeedUserRoles)

\* C26: a login whose lockout UPDATE (the increment, the lock, or the reset after a
\* correct password) is rejected by the store answers with a failure and no identity,
\* and puts no user in the session.
C26_PersistenceFailureFails ==
    [][\A s \in SessionIds, username \in LockoutIdentifiers, password \in Passwords :
          LoginUpdateFails(s, username, password) =>
              /\ resp'.handled /\ ~resp'.success /\ resp'.status = 401
              /\ resp'.reqUser = NoIdentity
              /\ sessions' = sessions]_vars

\* The reset after a correct password was rejected: the login failed and the counter
\* of earlier wrong passwords is still there.
C26_Witness ==
    /\ resp.op = "login" /\ resp.handled
    /\ resp.message = authenticationFailed.message
    /\ \E u \in DOMAIN users :
          /\ u \in MatchingUsers(resp.args.username)
          /\ CorrectPassword(u, resp.args.password)
          /\ users[u].failed_login_attempts > 0
    /\ ~resp.success /\ resp.reqUser = NoIdentity

\* C27: a login refused because the account is locked reports
\* ceil((locked_until_ts - now) / one minute) as the minutes remaining, which is at
\* least 1 and, the lock having been set by handleFailedLogin, at most
\* ceil(LOCKOUT_TIME / one minute).
C27_RemainingMinutes ==
    [][\A u \in UserIds, username \in Identifiers, password \in Passwords :
          (LockedNow(u) /\ RefusedAsLocked(resp') /\ LoginOn(u, username, password)) =>
              /\ resp'.minutes = Ceil(users[u].locked_until_ts - now, MS_PER_MINUTE)
              /\ resp'.minutes >= 1
              /\ resp'.minutes <= Ceil(LOCKOUT_TIME, MS_PER_MINUTE)]_vars

\* A lock with less than half a minute left is reported as one minute.
C27_Witness ==
    /\ RefusedAsLocked(resp) /\ resp.handled
    /\ resp.minutes = 1
    /\ \E u \in MatchingUsers(resp.args.username) :
          /\ LockedNow(u)
          /\ 2 * (users[u].locked_until_ts - now) < MS_PER_MINUTE

\* A DELETE /api/roles/:id request that reached the handler, for a role that is not a
\* system role.
DeletesNonSystemRole(r) ==
    /\ \E s \in SessionIds : DeleteRole(s, r)
    /\ resp'.handled
    /\ r \in DOMAIN roles /\ ~roles[r].is_system_role

\* C28: deleteRole on a non-system role clears the role's active flag and nothing else
\* (its row, its grants and its assignments stay), and a request made after it
\* resolves no identity that holds the role or a permission the user reaches, by the
\* rule, through that role only.
C28_SoftDeleteHidesRole ==
    [][ \A r \in RoleIds :
          /\ DeletesNonSystemRole(r) =>
                /\ roles' = [roles EXCEPT ![r].is_active = FALSE]
                /\ userRoles' = userRoles /\ rolePermissions' = rolePermissions
          /\ (/\ ResolvingRequest /\ resp'.reqUser # NoIdentity
              /\ r \in DOMAIN roles /\ ~roles[r].is_active /\ ~roles[r].is_system_role) =>
                /\ r \notin IdentityRoles(resp'.reqUser)
                /\ \A p \in IdentityPermissions(resp'.reqUser) :
                       p \in PermissionsVia({r}) => p \in ExpectedPermissions(resp'.reqUser.id)
      ]_vars

\* The createPermission calls that have a result to report.
Reported == { c \in CallIds : calls[c].pc = "done" }

\* C29: no two permissions have the same name, whatever createPermission calls were
\* made and however they interleave; of the calls for one name at most one reports
\* success; and a call that reports failure has left the permissions as they were.
C29_UniquePermissionNames ==
    /\ [](\A p, q \in DOMAIN permissions :
            permissions[p].permission_name = permissions[q].permission_name => p = q)
    /\ [](\A c, d \in Reported :
            (/\ calls[c].permissionData.permissionName = calls[d].permissionData.permissionName
             /\ calls[c].result.success /\ calls[d].result.success) => c = d)
    /\ [][\A c \in CallIds :
            (CreateInsert(c) /\ ~calls'[c].result.success) => permissions' = permissions]_vars

\* Two calls for one new name both found no permission of that name; one has inserted
\* it and reports success, the INSERT of the other was rejected.
C29_Witness ==
    \E c, d \in Reported :
        /\ c # d
        /\ calls[c].permissionData.permissionName = calls[d].permissionData.permissionName
        /\ calls[c].existing = 0 /\ calls[d].existing = 0
        /\ calls[c].result.success
        /\ ~calls[d].result.success
        /\ calls[d].result.message = "Failed to create permission"
        /\ Cardinality(existingPermissions(permissions,
                           calls[c].permissionData.permissionName)) = 1

\* The roles user u has an assignment to.
RolesOf(u) == { ur.role_id : ur \in { x \in userRoles : x.user_id = u } }

\* C30: the identity of a successful login holds only roles assigned to the user whose
\* password was verified and only permissions of those roles, also when the identifier
\* is the username of one user and the e-mail address of another.
C30_IdentityOfVerifiedUser ==
    [][ \A s \in SessionIds, c \in RegisterLogins :
          (Login(s, c[1], c[2]) /\ resp'.success) =>
              /\ IdentityRoles(resp'.reqUser) \subseteq RolesOf(resp'.reqUser.id)
              /\ IdentityPermissions(resp'.reqUser) \subseteq
                     PermissionsVia(RolesOf(resp'.reqUser.id))
      ]_vars

\* C31: a login on an account that is locked at that moment leaves the AdminUsers table
\* as it was, whatever the password: the counter, locked_until_ts and last_login_ts of
\* the account keep their values.
C31_LockedLoginChangesNothing ==
    [][\A u \in UserIds, username \in Identifiers, password \in Passwords :
          (LockedNow(u) /\ resp'.op = "login" /\ LoginOn(u, username, password)) =>
              users' = users]_vars

\* A wrong password was refused on a locked account some time after the lock was set:
\* the counter stands at the maximum and the lock still ends when it was set to end.
C31_Witness ==
    /\ RefusedAsLocked(resp) /\ resp.handled
    /\ \E u \in MatchingUsers(resp.args.username) :
          /\ LockedNow(u)
          /\ ~CorrectPassword(u, resp.args.password)
          /\ users[u].failed_login_attempts = MAX_LOGIN_ATTEMPTS
          /\ users[u].locked_until_ts - now < LOCKOUT_TIME
          /\ users[u].last_login_ts = NULL

\* The lock of account u has been set and has run out.
LockExpired(u) == users[u].locked_until_ts # NULL /\ ~LockedNow(u)

\* C32: the stored counter of an account changes only by +1, on a login with a wrong
\* password, and to 0, on a successful login; time passing changes nothing, so a lock
\* that has expired leaves the counter at or above the maximum and the next wrong
\* password sets a new lock at once.
C32_CounterOnlyCountsAndResets ==
    [][ \A u \in UserIds :
          LET before == users[u].failed_login_attempts
              after == users'[u].failed_login_attempts
          IN  /\ now' # now => users' = users
              /\ after # before =>
                    \/ /\ after = before + 1
                       /\ RefusedAsInvalid(resp')
                       /\ u \in MatchingUsers(resp'.args.username)
                       /\ ~CorrectPassword(u, resp'.args.password)
                    \/ /\ after = 0
                       /\ resp'.op = "login" /\ resp'.success
                       /\ resp'.reqUser.id = u
                       /\ CorrectPassword(u, resp'.args.password)
              /\ LockExpired(u) => before >= MAX_LOGIN_ATTEMPTS
              /\ \A username \in Identifiers, password \in Passwords :
                    (/\ LockExpired(u) /\ WrongPasswordCase(u, password)
                     /\ LoginOn(u, username, password)) =>
                        /\ after = before + 1
                        /\ users'[u].locked_until_ts = now + LOCKOUT_TIME
      ]_vars

\* One wrong password after the lock had expired: the counter has passed the maximum
\* and the account is locked again for the whole lockout time.
C32_Witness ==
    /\ RefusedAsInvalid(resp) /\ resp.handled
    /\ \E u \in MatchingUsers(resp.args.username) :
          /\ users[u].failed_login_attempts = MAX_LOGIN_ATTEMPTS + 1
          /\ users[u].locked_until_ts = now + LOCKOUT_TIME
          /\ now >= Epoch + LOCKOUT_TIME

\* Calls c and d have both returned, c with a success and d refused for a wrong
\* password, on account u, and no other call has started.
SuccessAndFailureReturned(c, d, u) ==
    /\ calls[c].pc = "done" /\ calls[d].pc = "done"
    /\ \A e \in CallIds \ {c, d} : calls[e].pc = "idle"
    /\ u \in MatchingUsers(calls[c].username) \cap MatchingUsers(calls[d].username)
    /\ calls[c].result.success
    /\ calls[d].result = wrongPasswordResult

\* C33: when a successful authenticateUser call and a wrong-password call on one account
\* interleave, the counter stored once both have returned is 0 or 1 and the account is
\* not locked.
C33_FailureNeverOverridesReset ==
    \A c, d \in CallIds, u \in UserIds :
        SuccessAndFailureReturned(c, d, u) =>
            /\ users[u].failed_login_attempts \in {0, 1}
            /\ users[u].locked_until_ts = NULL

\* C34: a request through optionalAuth always reaches its handler and is never answered
\* with a refusal, and the session stays bound as it was; req.user is set exactly when
\* the session is bound and its user resolves as active, and then lastActivity becomes
\* the time of the request, however long the session had been idle: a requireAuth check
\* made next passes even if the session had been idle for longer than its timeout.
C34_OptionalAuthPassesAndTouches ==
    [][ \A s \in SessionIds, queryFails \in BOOLEAN :
          (resp'.op = "optional" /\ OptionalRequest(s, queryFails)) =>
              LET fresh == getUserById(sessions[s].userId, queryFails)
                  resolves == Bound(s) /\ fresh.success
              IN  /\ resp'.handled /\ resp'.status = 200
                  /\ sessions'[s].userId = sessions[s].userId
                  /\ sessions'[s].user = sessions[s].user
                  /\ StoreUnchanged
                  /\ resp'.reqUser = IF resolves THEN fresh.user ELSE NoIdentity
                  /\ sessions'[s].lastActivity =
                        IF resolves THEN now ELSE sessions[s].lastActivity
                  /\ resolves => requireAuth(sessions'[s], now, NoFaults).next
      ]_vars

\* A session idle for longer than its timeout, which requireAuth would have ended, has
\* been used through optionalAuth: it is bound, fresh, and passes requireAuth.
C34_Witness ==
    /\ resp.op = "optional" /\ resp.handled /\ resp.reqUser # NoIdentity
    /\ getInactivityTimeout(resp.reqUser.id, FALSE) > 0
    /\ resp.args.timeSinceActivity > getInactivityTimeout(resp.reqUser.id, FALSE)
    /\ sessions[resp.args.sid].lastActivity = now
    /\ requireAuth(sessions[resp.args.sid], now, NoFaults).next

\* C35: a request on a session that is bound to an active user whose account is locked
\* passes requireAuth like any other (unless the session has been idle for longer than
\* its timeout), and resolves that user; the lock and the counter stay as they are.
C35_LockLeavesSessionsAlone ==
    [][ \A s \in SessionIds :
          (/\ Bound(s) /\ ~GoneOrInactive(s) /\ LockedNow(sessions[s].userId)
           /\ resp'.op = "me" /\ Me(s, NoFaults)) =>
              LET u == sessions[s].userId
                  idle == inactivityExpired(sessions[s], getInactivityTimeout(u, FALSE), now)
              IN  /\ resp'.handled <=> ~idle
                  /\ resp'.handled => /\ resp'.status = 200 /\ resp'.reqUser # NoIdentity
                                      /\ resp'.reqUser.id = u
                                      /\ sessions'[s].userId = u
                  /\ users' = users
      ]_vars

\* A request was served on the session of a user whose account is locked now.
C35_Witness ==
    /\ resp.op = "me" /\ resp.handled /\ resp.status = 200
    /\ resp.reqUser # NoIdentity
    /\ LockedNow(resp.reqUser.id)
    /\ users[resp.reqUser.id].failed_login_attempts >= MAX_LOGIN_ATTEMPTS
    /\ sessions[resp.args.sid].userId = resp.reqUser.id

\* C36: when a createRole call returns, the transaction it began is finished, committed
\* if the call reports success and rolled back otherwise; a call that reports success
\* has stored its role; and a call that reports failure has left the roles as they were.
C36_TransactionsFinished ==
    /\ [](\A c \in CallIds :
            calls[c].pc = "done" =>
                /\ calls[c].tx = IF calls[c].result.success THEN "committed"
                                 ELSE "rolledback"
                /\ calls[c].result.success =>
                       existingRole(roles, calls[c].roleData.roleName) # {})
    /\ [][\A c \in CallIds :
            (CreateRoleFinish(c) /\ ~calls'[c].result.success) => roles' = roles]_vars

\* The UserRoles rows of the pair (u, r), active or not.
Assignments(u, r) == { ur \in userRoles : ur.user_id = u /\ ur.role_id = r }

\* C37: there is at most one UserRoles row per (user, role) pair, active or not; a
\* removal keeps every row and only clears the active flag of the pair's row; and an
\* assignment requested for a pair whose row is inactive fails with an error and leaves
\* the table as it is, so the pair stays inactive.
C37_RemovedAssignmentStaysRemoved ==
    /\ [](\A u \in UserIds, r \in RoleIds : Cardinality(Assignments(u, r)) <= 1)
    /\ [][\A s \in SessionIds, r \in RoleIds, u \in UserIds :
            /\ (resp'.op = "removeRole" /\ resp'.handled /\ RemoveRole(s, r, u)) =>
                  userRoles' = { IF ur \in Assignments(u, r)
                                 THEN [ur EXCEPT !.is_active = FALSE] ELSE ur :
                                 ur \in userRoles }
            /\ (/\ resp'.op = "assignRole" /\ resp'.handled
                /\ Assignments(u, r) # {} /\ ActiveAssignments(u, r) = {}
                /\ AssignRole(s, r, u)) =>
                  /\ resp'.status = 500 /\ ~resp'.success
                  /\ userRoles' = userRoles]_vars

\* The assignment of a role that had been taken from the user was refused with an
\* error: the row of the pair is still there and still inactive.
C37_Witness ==
    /\ resp.op = "assignRole" /\ resp.handled /\ resp.status = 500
    /\ Cardinality(Assignments(resp.args.userId, resp.args.roleId)) = 1
    /\ ActiveAssignments(resp.args.userId, resp.args.roleId) = {}

\* C38: in every state of the store, the identity a successful authenticateUser call
\* returns has the roles and the permissions of the identity that getUserById resolves
\* for the same user.
C38_ResolversAgree ==
    \A c \in RegisterLogins : \A first \in FirstRowChoices(c[1]) :
        LET out == authenticateUser(c[1], c[2], first).result
        IN  out.success =>
                LET fresh == getUserById(out.user.id, FALSE)
                IN  /\ fresh.success
                    /\ IdentityRoles(out.user) = IdentityRoles(fresh.user)
                    /\ IdentityPermissions(out.user) = IdentityPermissions(fresh.user)

====
